---- MODULE Spec2Model ----
(***************************************************************************)
(* Model of the Octavia v2 controller worker (the orchestrator) of         *)
(* octavia/controller/worker/v2/controller_worker.py.                      *)
(*                                                                         *)
(* The repositories, the metadata resolvers and the taskflow engine are    *)
(* external collaborators: every call to one of them either succeeds or    *)
(* raises, and the model records the calls the worker makes.               *)
(***************************************************************************)
EXTENDS Integers, Sequences, FiniteSets, TLC

(***************************************************************************)
(* Bounds and universes                                                    *)
(***************************************************************************)
MaxAmps == 2

AmphoraIds == 1 .. MaxAmps
MissingAmphoraId == MaxAmps + 1      \* an id with no row in the amphora table
LoadBalancerIds == {1}
MissingLoadBalancerId == Cardinality(LoadBalancerIds) + 1  \* no row in the LB table
None == 0                            \* Python None for ids and references
Workers == {1, 2}                    \* worker execution contexts
SequentialWorkers == {1}             \* Spec runs one invocation at a time

(***************************************************************************)
(* octavia.common.constants, as used by the worker                         *)
(***************************************************************************)
ROLE_MASTER == "MASTER"
ROLE_BACKUP == "BACKUP"
ROLE_STANDALONE == "STANDALONE"
ROLE_NONE == "None"
ROLE_OTHER == "UNDEFINED"
Roles == {ROLE_MASTER, ROLE_BACKUP, ROLE_STANDALONE, ROLE_NONE, ROLE_OTHER}

DELETED == "DELETED"
ALLOCATED == "ALLOCATED"
AmphoraStatuses == {ALLOCATED, DELETED}

PENDING_UPDATE == "PENDING_UPDATE"
ACTIVE == "ACTIVE"
ERROR == "ERROR"

LB_CREATE_FAILOVER_PRIORITY == "LB_CREATE_FAILOVER_PRIORITY"
LB_CREATE_ADMIN_FAILOVER_PRIORITY == "LB_CREATE_ADMIN_FAILOVER_PRIORITY"

(***************************************************************************)
(* Exceptions, named after the call that raises them                       *)
(***************************************************************************)
NoException == "NoException"
DBReadError == "DBReadError"                 \* a repository get raises
AttributeError == "AttributeError"           \* attribute access on None
MetadataError == "MetadataError"             \* lb / flavor / az lookup raises
ExecutionFailure == "ExecutionFailure"       \* the engine run raises
HealthDeleteError == "HealthDeleteError"     \* amphora_health delete raises
ActiveWriteError == "ActiveWriteError"       \* update(..., ACTIVE) raises
CompensationFailure == "CompensationFailure" \* update(..., ERROR) raises
FlowLoadError == "FlowLoadError"             \* _taskflow_load raises
FetchError == "FetchError"                   \* storage.fetch raises
IndexError == "IndexError"                   \* [0] on an empty list

VARIABLES
    amphora,              \* amphora table: id -> [load_balancer_id, role, status]
    provisioning_status,  \* load balancer table: id -> provisioning_status
    amphora_health,       \* ids that have a row in the amphora_health table
    pc,                   \* worker -> position in the running operation
    call,                 \* worker -> [op, id] the operation being served
    amp,                  \* worker -> the amphora bound to local `amp` (None: unbound)
    amps,                 \* worker -> the filtered list `amps` of failover_loadbalancer
    idx,                  \* worker -> loop position in `amps`
    ret,                  \* worker -> where _perform_amphora_failover returns to
    exc,                  \* worker -> the exception caught by the except clause
    result,               \* worker -> what the caller received
    engine_log,           \* worker -> engine executions started by this invocation
    lb_updates,           \* worker -> _lb_repo.update calls of this invocation
    health_deletes,       \* worker -> _amphora_health_repo.delete calls
    health_before,        \* worker -> amphora_health when the invocation began
    r_pc,                 \* position in the tenacity loop of the convergence read
    attempt_number,       \* retry_state.attempt_number
    outcome,              \* retry_state.outcome: the last attempt's result or exception
    db_reads,             \* repo.get calls made under tenacity.retry
    stale_reads,          \* those whose outcome asks for another attempt
    sleeps,               \* the waits slept so far, in order
    slept,                \* their sum, in seconds
    r_result,             \* what the convergence read gave its caller
    db_obj,               \* worker -> the entity snapshot an update operation works on
    pool,                 \* worker -> the pool id batch_update_members resolved
    MC,                   \* restricted_zones.MC: None or the cache client in use
    mc_store,             \* what the cache backend holds: cache key -> value
    get_client_calls,     \* cache_utils.get_client calls made so far
    z_calls,              \* the get_restricted_zones calls that ended, in order
    resets,               \* reset_cache calls made so far
    flavor_id,            \* load balancer table: id -> flavor_id (None: unset)
    availability_zone,    \* load balancer table: id -> availability_zone (None: unset)
    enable_anti_affinity, \* CONF.nova.enable_anti_affinity
    stored_params,        \* worker -> the parameter bags its failover flows were loaded with
    resolver_calls        \* worker -> the metadata lookups made for each of those bags

orch_vars == <<amphora, provisioning_status, amphora_health, pc, call, amp,
               amps, idx, ret, exc, result, engine_log, lb_updates,
               health_deletes, health_before>>

retry_vars == <<r_pc, attempt_number, outcome, db_reads, stale_reads, sleeps,
                slept, r_result>>

op_vars == <<db_obj, pool>>

zone_vars == <<MC, mc_store, get_client_calls, z_calls, resets>>

lb_vars == <<flavor_id, availability_zone, enable_anti_affinity>>

bag_vars == <<stored_params, resolver_calls>>

\* what the failover sequencer and the convergence read never touch
other_vars == <<op_vars, zone_vars, lb_vars, bag_vars>>

vars == <<orch_vars, retry_vars, other_vars>>

locals == <<amp, amps, idx, ret, exc>>
logs == <<engine_log, lb_updates, health_deletes, health_before>>
tables == <<amphora, provisioning_status, amphora_health>>

(***************************************************************************)
(* Repository accessors                                                    *)
(***************************************************************************)
\* _amphora_repo.get(session, id=amphora_id): the row, or None when absent
amphora_repo_get(id) == IF id \in DOMAIN amphora THEN id ELSE None

\* _amphora_repo.get_lb_for_amphora(session, amp.id): the owning load
\* balancer, or None for an amphora that has none
get_lb_for_amphora(a) ==
    IF a \in DOMAIN amphora THEN amphora[a].load_balancer_id ELSE None

\* lb.server_group_id
server_group_id(lb) == <<"server_group", lb>>

\* _flavor_repo.get_flavor_metadata_dict(session, flavor_id)
get_flavor_metadata_dict(f) == <<"flavor_metadata", f>>

\* _az_repo.get_availability_zone_metadata_dict(session, availability_zone)
get_availability_zone_metadata_dict(az) == <<"availability_zone_metadata", az>>

\* the empty dict {}
EmptyDict == << >>

\* lb.amphorae: the amphorae of a load balancer, in table order
lb_amphorae(lb_id) ==
    SelectSeq([i \in 1 .. MaxAmps |-> i],
              LAMBDA a: amphora[a].load_balancer_id = lb_id)

\* an update without its WHERE clause: every row is written
lb_repo_update_mut(table, id, value) == [l \in DOMAIN table |-> value]

\* _lb_repo.update(session, id, provisioning_status=value): rows matching id
lb_repo_update(table, id, value) ==
    IF id \in DOMAIN table THEN [table EXCEPT ![id] = value] ELSE table

(***************************************************************************)
(* failover_loadbalancer: the filter and the two passes                    *)
(***************************************************************************)
\* line 947: a.status != constants.DELETED
not_deleted(a) == amphora[a].status # DELETED

\* a first pass that picks the MASTER instead of the BACKUP
first_pass_selects_mut(a) == amphora[a].role = ROLE_MASTER

\* line 953: amp.role == constants.ROLE_BACKUP
first_pass_selects(a) == amphora[a].role = ROLE_BACKUP

\* a second pass that only picks the MASTER
second_pass_selects_mut(a) == amphora[a].role = ROLE_MASTER

\* line 959: amp.role != constants.ROLE_BACKUP
second_pass_selects(a) == amphora[a].role # ROLE_BACKUP

\* line 947: amps = [a for a in lb.amphorae if a.status != constants.DELETED]
filter_amps(lb_id) == SelectSeq(lb_amphorae(lb_id), not_deleted)

(***************************************************************************)
(* Initial state                                                           *)
(***************************************************************************)
AmphoraRows ==
    [load_balancer_id : LoadBalancerIds \cup {None},
     role : Roles,
     status : AmphoraStatuses]

NoCall == [op |-> "none", id |-> None]

\* no worker is serving a request
InitWorkers ==
    /\ pc = [p \in Workers |-> "idle"]
    /\ call = [p \in Workers |-> NoCall]
    /\ amp = [p \in Workers |-> None]
    /\ amps = [p \in Workers |-> <<>>]
    /\ idx = [p \in Workers |-> 0]
    /\ ret = [p \in Workers |-> "none"]
    /\ exc = [p \in Workers |-> NoException]
    /\ result = [p \in Workers |-> "none"]
    /\ engine_log = [p \in Workers |-> <<>>]
    /\ lb_updates = [p \in Workers |-> <<>>]
    /\ health_deletes = [p \in Workers |-> <<>>]
    /\ health_before = [p \in Workers |-> {}]

InitOrch ==
    /\ amphora \in [AmphoraIds -> AmphoraRows]
    /\ provisioning_status = [l \in LoadBalancerIds |-> PENDING_UPDATE]
    /\ amphora_health = AmphoraIds
    /\ InitWorkers

NoOutcome == [failed |-> FALSE, status |-> "unset"]

InitRetry ==
    /\ r_pc = "idle"
    /\ attempt_number = 0
    /\ outcome = NoOutcome
    /\ db_reads = 0
    /\ stale_reads = 0
    /\ sleeps = <<>>
    /\ slept = 0
    /\ r_result = "none"

NoSnapshot == [status |-> "unset", read |-> 0]

InitOps ==
    /\ db_obj = [p \in Workers |-> NoSnapshot]
    /\ pool = [p \in Workers |-> None]

\* no parameter bag has been built
InitBags ==
    /\ stored_params = [p \in Workers |-> << >>]
    /\ resolver_calls = [p \in Workers |-> << >>]

\* load balancers without flavor and availability zone, anti-affinity off
InitPlain ==
    /\ flavor_id = [l \in LoadBalancerIds |-> None]
    /\ availability_zone = [l \in LoadBalancerIds |-> None]
    /\ enable_anti_affinity = FALSE
    /\ InitBags

\* an idle worker takes the request c and starts at `first` with fresh locals
Enter(p, c, first) ==
    /\ pc[p] = "idle"
    /\ pc' = [pc EXCEPT ![p] = first]
    /\ call' = [call EXCEPT ![p] = c]
    /\ amp' = [amp EXCEPT ![p] = None]
    /\ amps' = [amps EXCEPT ![p] = <<>>]
    /\ idx' = [idx EXCEPT ![p] = 0]
    /\ ret' = [ret EXCEPT ![p] = "none"]
    /\ exc' = [exc EXCEPT ![p] = NoException]
    /\ result' = [result EXCEPT ![p] = "none"]
    /\ engine_log' = [engine_log EXCEPT ![p] = <<>>]
    /\ lb_updates' = [lb_updates EXCEPT ![p] = <<>>]
    /\ health_deletes' = [health_deletes EXCEPT ![p] = <<>>]
    /\ health_before' = [health_before EXCEPT ![p] = amphora_health]

\* an idle worker takes a failover request; the load balancer was put in
\* PENDING_UPDATE by the caller (lines 940-941)
Begin(p, op, id, first) ==
    /\ Enter(p, [op |-> op, id |-> id], first)
    /\ UNCHANGED <<tables, retry_vars, other_vars>>

\* an exception that is noted and then ignored: the loop goes on
Raise_mut(p, e, handler) ==
    /\ exc' = [exc EXCEPT ![p] = e]
    /\ pc' = [pc EXCEPT ![p] = ret[p]]

\* an exception leaves the try block for the except clause `handler`
Raise(p, e, handler) ==
    /\ exc' = [exc EXCEPT ![p] = e]
    /\ pc' = [pc EXCEPT ![p] = handler]

\* the handler of the operation that worker p is serving
handler_of(p) ==
    IF call[p].op = "failover_amphora" THEN "fa_except" ELSE "fl_except"

\* the operation ends and the caller receives r
Finish(p, r) ==
    /\ pc' = [pc EXCEPT ![p] = "done"]
    /\ result' = [result EXCEPT ![p] = r]

(***************************************************************************)
(* _perform_amphora_failover(amp, priority), lines 821-897                 *)
(***************************************************************************)
\* every failover tagged as a user-triggered one
priority_of_mut(op) == LB_CREATE_FAILOVER_PRIORITY

\* the build priority each entry point passes (lines 914, 955, 961)
priority_of(op) ==
    IF op = "failover_amphora" THEN LB_CREATE_FAILOVER_PRIORITY
    ELSE LB_CREATE_ADMIN_FAILOVER_PRIORITY

\* a failover that does not look at the amphora status
skips_failover_mut(a) == FALSE

\* line 848: amp.status == constants.DELETED
skips_failover(a) == amphora[a].status = DELETED

\* a skip that returns without touching the amphora_health table
perform_amphora_failover_deleted_mut(p) ==
    /\ pc[p] = "perform"
    /\ skips_failover(amp[p])
    /\ pc' = [pc EXCEPT ![p] = ret[p]]
    /\ UNCHANGED <<retry_vars, other_vars, tables, call, locals, result, logs>>

\* lines 848-855: a DELETED amphora only loses its amphora_health row
perform_amphora_failover_deleted(p) ==
    /\ pc[p] = "perform"
    /\ skips_failover(amp[p])
    /\ \/ /\ health_deletes' = [health_deletes EXCEPT
                                   ![p] = Append(@, [amphora_id |-> amp[p], ok |-> TRUE])]
          /\ amphora_health' = amphora_health \ {amp[p]}
          /\ pc' = [pc EXCEPT ![p] = ret[p]]
          /\ UNCHANGED exc
       \/ /\ health_deletes' = [health_deletes EXCEPT
                                   ![p] = Append(@, [amphora_id |-> amp[p], ok |-> FALSE])]
          /\ UNCHANGED amphora_health
          /\ Raise(p, HealthDeleteError, handler_of(p))
    /\ UNCHANGED <<retry_vars, other_vars, amphora, provisioning_status, call, amp, amps, idx, ret,
                   result, engine_log, lb_updates, health_before>>

\* a bag whose flavor entry is looked up for every owning load balancer
build_stored_params_mut(a, priority) ==
    LET lb == get_lb_for_amphora(a)
        has_az == lb # None /\ availability_zone[lb] # None
        base == [failed_amphora |-> a,
                 loadbalancer_id |-> amphora[a].load_balancer_id,
                 build_type_priority |-> priority,
                 flavor |-> IF lb # None
                            THEN get_flavor_metadata_dict(flavor_id[lb])
                            ELSE EmptyDict,
                 availability_zone |->
                     IF has_az
                     THEN get_availability_zone_metadata_dict(availability_zone[lb])
                     ELSE EmptyDict]
    IN [store |-> IF enable_anti_affinity /\ lb # None
                  THEN base @@ [server_group_id |-> server_group_id(lb)]
                  ELSE base,
        lookups |-> (IF lb # None
                     THEN <<[resolver |-> "flavor", id |-> flavor_id[lb]]>>
                     ELSE << >>)
                    \o (IF has_az
                        THEN <<[resolver |-> "availability_zone",
                                id |-> availability_zone[lb]]>>
                        ELSE << >>)]

\* lines 828-830 and 865-882: the parameter bag stored_params of the
\* failover flow of amphora a, and the metadata lookups made to fill it
build_stored_params(a, priority) ==
    LET lb == get_lb_for_amphora(a)
        has_flavor == lb # None /\ flavor_id[lb] # None
        has_az == lb # None /\ availability_zone[lb] # None
        base == [failed_amphora |-> a,
                 loadbalancer_id |-> amphora[a].load_balancer_id,
                 build_type_priority |-> priority,
                 flavor |-> IF has_flavor
                            THEN get_flavor_metadata_dict(flavor_id[lb])
                            ELSE EmptyDict,
                 availability_zone |->
                     IF has_az
                     THEN get_availability_zone_metadata_dict(availability_zone[lb])
                     ELSE EmptyDict]
    IN [store |-> IF enable_anti_affinity /\ lb # None
                  THEN base @@ [server_group_id |-> server_group_id(lb)]
                  ELSE base,
        lookups |-> (IF has_flavor
                     THEN <<[resolver |-> "flavor", id |-> flavor_id[lb]]>>
                     ELSE << >>)
                    \o (IF has_az
                        THEN <<[resolver |-> "availability_zone",
                                id |-> availability_zone[lb]]>>
                        ELSE << >>)]

\* lines 857-890: look up the load balancer and its metadata, load the
\* failover flow and start running it
perform_amphora_failover_start(p) ==
    /\ pc[p] = "perform"
    /\ ~skips_failover(amp[p])
    /\ \/ /\ engine_log' = [engine_log EXCEPT ![p] = Append(@,
                 [amphora_id |-> amp[p],
                  loadbalancer_id |-> amphora[amp[p]].load_balancer_id,
                  build_type_priority |-> priority_of(call[p].op),
                  state |-> "running"])]
          /\ stored_params' = [stored_params EXCEPT ![p] = Append(@,
                 build_stored_params(amp[p], priority_of(call[p].op)).store)]
          /\ resolver_calls' = [resolver_calls EXCEPT ![p] = Append(@,
                 build_stored_params(amp[p], priority_of(call[p].op)).lookups)]
          /\ pc' = [pc EXCEPT ![p] = "running"]
          /\ UNCHANGED exc
       \/ /\ Raise(p, MetadataError, handler_of(p))
          /\ UNCHANGED <<engine_log, bag_vars>>
    /\ UNCHANGED <<retry_vars, op_vars, zone_vars, lb_vars, tables, call, amp,
                   amps, idx, ret, result, lb_updates, health_deletes,
                   health_before>>

\* a run whose failure is swallowed instead of raised
perform_amphora_failover_finish_mut(p) ==
    /\ pc[p] = "running"
    /\ \E s \in {"completed", "failed"} :
          engine_log' = [engine_log EXCEPT ![p][Len(engine_log[p])].state = s]
    /\ pc' = [pc EXCEPT ![p] = ret[p]]
    /\ UNCHANGED <<retry_vars, other_vars, tables, call, locals, result, lb_updates,
                   health_deletes, health_before>>

\* line 890: failover_amphora_tf.run() completes or raises
perform_amphora_failover_finish(p) ==
    /\ pc[p] = "running"
    /\ \/ /\ engine_log' = [engine_log EXCEPT
                               ![p][Len(engine_log[p])].state = "completed"]
          /\ pc' = [pc EXCEPT ![p] = ret[p]]
          /\ UNCHANGED exc
       \/ /\ engine_log' = [engine_log EXCEPT
                               ![p][Len(engine_log[p])].state = "failed"]
          /\ Raise(p, ExecutionFailure, handler_of(p))
    /\ UNCHANGED <<retry_vars, other_vars, tables, call, amp, amps, idx, ret, result, lb_updates,
                   health_deletes, health_before>>

(***************************************************************************)
(* failover_amphora(amphora_id), lines 899-930                             *)
(***************************************************************************)
failover_amphora_call(p) ==
    /\ pc[p] = "idle"
    /\ \E id \in AmphoraIds \cup {MissingAmphoraId} :
          Begin(p, "failover_amphora", id, "fa_get")

\* lines 907-914: read the amphora; an absent one ends the request
failover_amphora_get(p) ==
    /\ pc[p] = "fa_get"
    /\ \/ /\ Raise(p, DBReadError, "fa_except")
          /\ UNCHANGED <<amp, ret, result>>
       \/ /\ amphora_repo_get(call[p].id) = None
          /\ Finish(p, "returned")
          /\ UNCHANGED <<amp, ret, exc>>
       \/ /\ amphora_repo_get(call[p].id) # None
          /\ amp' = [amp EXCEPT ![p] = amphora_repo_get(call[p].id)]
          /\ ret' = [ret EXCEPT ![p] = "fa_mark_active"]
          /\ pc' = [pc EXCEPT ![p] = "perform"]
          /\ UNCHANGED <<exc, result>>
    /\ UNCHANGED <<retry_vars, other_vars, tables, call, amps, idx, logs>>

\* a return that leaves the load balancer as it was
failover_amphora_mark_active_mut(p) ==
    /\ pc[p] = "fa_mark_active"
    /\ Finish(p, "returned")
    /\ UNCHANGED <<retry_vars, other_vars, tables, call, locals, logs>>

\* lines 915-920: mark the owning load balancer ACTIVE, if there is one
failover_amphora_mark_active(p) ==
    /\ pc[p] = "fa_mark_active"
    /\ LET lb_id == amphora[amp[p]].load_balancer_id IN
       IF lb_id # None
       THEN \/ /\ provisioning_status' =
                      lb_repo_update(provisioning_status, lb_id, ACTIVE)
               /\ lb_updates' = [lb_updates EXCEPT ![p] = Append(@,
                      [id |-> lb_id, provisioning_status |-> ACTIVE, ok |-> TRUE])]
               /\ Finish(p, "returned")
               /\ UNCHANGED exc
            \/ /\ lb_updates' = [lb_updates EXCEPT ![p] = Append(@,
                      [id |-> lb_id, provisioning_status |-> ACTIVE, ok |-> FALSE])]
               /\ Raise(p, ActiveWriteError, "fa_except")
               /\ UNCHANGED <<provisioning_status, result>>
       ELSE /\ Finish(p, "returned")
            /\ UNCHANGED <<provisioning_status, lb_updates, exc>>
    /\ UNCHANGED <<retry_vars, other_vars, amphora, amphora_health, call, amp, amps, idx, ret,
                   engine_log, health_deletes, health_before>>

\* lines 921-930: try to write ERROR, swallow a failure of that write, and
\* re-raise the caught exception.  When the amphora read itself raised,
\* `amp` is unbound and evaluating amp.load_balancer_id raises inside the
\* inner try, before _lb_repo.update is called.
failover_amphora_except(p) ==
    /\ pc[p] = "fa_except"
    /\ IF amp[p] = None
       THEN UNCHANGED <<provisioning_status, lb_updates>>
       ELSE LET lb_id == amphora[amp[p]].load_balancer_id IN
            \/ /\ provisioning_status' =
                      lb_repo_update(provisioning_status, lb_id, ERROR)
               /\ lb_updates' = [lb_updates EXCEPT ![p] = Append(@,
                      [id |-> lb_id, provisioning_status |-> ERROR, ok |-> TRUE])]
            \/ /\ lb_updates' = [lb_updates EXCEPT ![p] = Append(@,
                      [id |-> lb_id, provisioning_status |-> ERROR, ok |-> FALSE])]
               /\ UNCHANGED provisioning_status
    /\ Finish(p, exc[p])
    /\ UNCHANGED <<retry_vars, other_vars, amphora, amphora_health, call, locals, engine_log,
                   health_deletes, health_before>>

(***************************************************************************)
(* failover_loadbalancer(load_balancer_id), lines 932-973                  *)
(***************************************************************************)
failover_loadbalancer_call(p) ==
    /\ pc[p] = "idle"
    /\ \E id \in LoadBalancerIds \cup {MissingLoadBalancerId} :
          Begin(p, "failover_loadbalancer", id, "fl_get")

\* lines 943-947: read the load balancer and drop its DELETED amphorae; an
\* absent load balancer is None and lb.amphorae raises
failover_loadbalancer_get(p) ==
    /\ pc[p] = "fl_get"
    /\ \/ /\ Raise(p, DBReadError, "fl_except")
          /\ UNCHANGED <<amps, idx>>
       \/ /\ call[p].id \notin DOMAIN provisioning_status
          /\ Raise(p, AttributeError, "fl_except")
          /\ UNCHANGED <<amps, idx>>
       \/ /\ call[p].id \in DOMAIN provisioning_status
          /\ amps' = [amps EXCEPT ![p] = filter_amps(call[p].id)]
          /\ idx' = [idx EXCEPT ![p] = 1]
          /\ pc' = [pc EXCEPT ![p] = "fl_pass1"]
          /\ UNCHANGED exc
    /\ UNCHANGED <<retry_vars, other_vars, tables, call, amp, ret, result, logs>>

\* a second loop without its `if`: it takes every amphora of the list
pass_selects_mut(first, a) ==
    IF first THEN first_pass_selects(a) ELSE TRUE

\* the `if` of the first loop (line 953) or of the second (line 959)
pass_selects(first, a) ==
    IF first THEN first_pass_selects(a) ELSE second_pass_selects(a)

\* one iteration of a `for amp in amps` loop: fail the amphora over when
\* the pass selects it; after the last amphora go on to `after`
loop_iteration(p, here, first, after) ==
    /\ pc[p] = here
    /\ IF idx[p] > Len(amps[p])
       THEN /\ pc' = [pc EXCEPT ![p] = after]
            /\ idx' = [idx EXCEPT ![p] = 1]
            /\ UNCHANGED <<amp, ret>>
       ELSE /\ amp' = [amp EXCEPT ![p] = amps[p][idx[p]]]
            /\ idx' = [idx EXCEPT ![p] = @ + 1]
            /\ IF pass_selects(first, amps[p][idx[p]])
               THEN /\ pc' = [pc EXCEPT ![p] = "perform"]
                    /\ ret' = [ret EXCEPT ![p] = here]
               ELSE UNCHANGED <<pc, ret>>
    /\ UNCHANGED <<retry_vars, other_vars, tables, call, amps, exc, result, logs>>

\* lines 948-955: the first pass
failover_loadbalancer_pass1(p) ==
    /\ pc[p] = "fl_pass1"
    /\ loop_iteration(p, "fl_pass1", TRUE, "fl_pass2")

\* lines 957-961: the second pass
failover_loadbalancer_pass2(p) ==
    /\ pc[p] = "fl_pass2"
    /\ loop_iteration(p, "fl_pass2", FALSE, "fl_mark_active")

\* lines 963-965: every amphora was failed over, mark the load balancer ACTIVE
failover_loadbalancer_mark_active(p) ==
    /\ pc[p] = "fl_mark_active"
    /\ \/ /\ provisioning_status' =
                 lb_repo_update(provisioning_status, call[p].id, ACTIVE)
          /\ lb_updates' = [lb_updates EXCEPT ![p] = Append(@,
                 [id |-> call[p].id, provisioning_status |-> ACTIVE, ok |-> TRUE])]
          /\ Finish(p, "returned")
          /\ UNCHANGED exc
       \/ /\ lb_updates' = [lb_updates EXCEPT ![p] = Append(@,
                 [id |-> call[p].id, provisioning_status |-> ACTIVE, ok |-> FALSE])]
          /\ Raise(p, ActiveWriteError, "fl_except")
          /\ UNCHANGED <<provisioning_status, result>>
    /\ UNCHANGED <<retry_vars, other_vars, amphora, amphora_health, call, amp, amps, idx, ret,
                   engine_log, health_deletes, health_before>>

\* oslo_utils.excutils.save_and_reraise_exception: when the body of the
\* `with` completes, the saved exception is re-raised; when the body itself
\* raises, the saved exception is logged as dropped and the new one
\* propagates
save_and_reraise_exception(saved, body_raised) ==
    IF body_raised = NoException THEN saved ELSE body_raised

\* lines 967-973: write ERROR inside save_and_reraise_exception
failover_loadbalancer_except(p) ==
    /\ pc[p] = "fl_except"
    /\ \/ /\ provisioning_status' =
                 lb_repo_update(provisioning_status, call[p].id, ERROR)
          /\ lb_updates' = [lb_updates EXCEPT ![p] = Append(@,
                 [id |-> call[p].id, provisioning_status |-> ERROR, ok |-> TRUE])]
          /\ Finish(p, save_and_reraise_exception(exc[p], NoException))
       \/ /\ lb_updates' = [lb_updates EXCEPT ![p] = Append(@,
                 [id |-> call[p].id, provisioning_status |-> ERROR, ok |-> FALSE])]
          /\ UNCHANGED provisioning_status
          /\ Finish(p, save_and_reraise_exception(exc[p], CompensationFailure))
    /\ UNCHANGED <<retry_vars, other_vars, amphora, amphora_health, call, locals, engine_log,
                   health_deletes, health_before>>

(***************************************************************************)
(* The convergence read: _get_db_obj_until_pending_update under            *)
(* tenacity.retry, lines 90-99                                             *)
(***************************************************************************)
RETRY_ATTEMPTS == 15
RETRY_INITIAL_DELAY == 1
RETRY_BACKOFF == 1
RETRY_MAX == 5

NoEntity == "None"                   \* repo.get found no row
EntityStatuses == {PENDING_UPDATE, ACTIVE}
RetryError == "RetryError"

Min(a, b) == IF a < b THEN a ELSE b
Max(a, b) == IF a > b THEN a ELSE b

\* the predicate read the way its name suggests
is_provisioning_status_pending_update_mut(status) == status = PENDING_UPDATE

\* lines 59-60: True asks for another attempt
is_provisioning_status_pending_update(status) == ~(status = PENDING_UPDATE)

\* lines 59-60 applied to None: lb_obj.provisioning_status raises
predicate_raises(o) == ~o.failed /\ o.status = NoEntity

\* lines 91-93: retry_if_result(...) | retry_if_exception_type()
retry(o) ==
    \/ ~o.failed /\ is_provisioning_status_pending_update(o.status)
    \/ o.failed

\* line 96: stop_after_attempt(RETRY_ATTEMPTS)
stop(n) == n >= RETRY_ATTEMPTS

\* an increment counted from the attempt number instead of attempts made
wait_incrementing_mut(start, increment, max, n) ==
    Max(0, Min(start + increment * n, max))

\* lines 94-95: wait_incrementing(start, increment, max) after attempt n
wait_incrementing(start, increment, max, n) ==
    Max(0, Min(start + increment * (n - 1), max))

wait(n) == wait_incrementing(RETRY_INITIAL_DELAY, RETRY_BACKOFF, RETRY_MAX, n)

\* the decorated method is called: tenacity starts with attempt 1
get_db_obj_until_pending_update_call ==
    /\ r_pc = "idle"
    /\ r_pc' = "attempt"
    /\ attempt_number' = 1
    /\ UNCHANGED <<orch_vars, other_vars, outcome, db_reads, stale_reads, sleeps, slept, r_result>>

\* line 99: one repo.get; it raises, finds no row, or returns the entity
get_db_obj_until_pending_update_attempt ==
    /\ r_pc = "attempt"
    /\ db_reads' = db_reads + 1
    /\ \/ /\ outcome' = [failed |-> TRUE, status |-> "unset"]
          /\ stale_reads' = stale_reads + 1
       \/ /\ outcome' = [failed |-> FALSE, status |-> NoEntity]
          /\ UNCHANGED stale_reads
       \/ \E s \in EntityStatuses :
             /\ outcome' = [failed |-> FALSE, status |-> s]
             /\ stale_reads' = IF s = PENDING_UPDATE THEN stale_reads
                               ELSE stale_reads + 1
    /\ r_pc' = "iter"
    /\ UNCHANGED <<orch_vars, other_vars, attempt_number, sleeps, slept, r_result>>

\* tenacity's iter(): return the result, give up with RetryError, or sleep.
\* An exception raised by the retry predicate leaves the loop.
get_db_obj_until_pending_update_iter ==
    /\ r_pc = "iter"
    /\ IF predicate_raises(outcome)
       THEN /\ r_pc' = "done"
            /\ r_result' = AttributeError
       ELSE IF ~retry(outcome)
       THEN /\ r_pc' = "done"
            /\ r_result' = outcome.status
       ELSE IF stop(attempt_number)
       THEN /\ r_pc' = "done"
            /\ r_result' = RetryError
       ELSE /\ r_pc' = "sleep"
            /\ UNCHANGED r_result
    /\ UNCHANGED <<orch_vars, other_vars, attempt_number, outcome, db_reads, stale_reads, sleeps, slept>>

\* the sleep between two attempts
get_db_obj_until_pending_update_sleep ==
    /\ r_pc = "sleep"
    /\ sleeps' = Append(sleeps, wait(attempt_number))
    /\ slept' = slept + wait(attempt_number)
    /\ attempt_number' = attempt_number + 1
    /\ r_pc' = "attempt"
    /\ UNCHANGED <<orch_vars, other_vars, outcome, db_reads, stale_reads, r_result>>

(***************************************************************************)
(* Operations that load one flow and run it                                *)
(***************************************************************************)
NoPriority == "absent"               \* the store has no BUILD_TYPE_PRIORITY key

\* an engine execution of an operation that is not a failover
flow_run(lb_id, priority, state) ==
    [amphora_id |-> None, loadbalancer_id |-> lb_id,
     build_type_priority |-> priority, state |-> state]

\* what the frame of a step of such an operation leaves alone
op_frame ==
    <<tables, call, amp, amps, idx, ret, lb_updates, health_deletes, health_before>>

(***************************************************************************)
(* update_health_monitor, lines 207-248, and update_pool, lines 623-659    *)
(***************************************************************************)
UpdateOps == {"update_pool", "update_health_monitor"}

\* e.last_attempt.result() at lines 226 and 640: the last attempt's value,
\* or the exception that attempt ended with, raised again
last_attempt_result(o) == o

\* the operation is called and calls the decorated read: attempt 1 starts
update_call(p) ==
    /\ pc[p] = "idle"
    /\ r_pc = "idle"
    /\ \E op \in UpdateOps : Enter(p, [op |-> op, id |-> 1], "up_read")
    /\ r_pc' = "attempt"
    /\ attempt_number' = 1
    /\ UNCHANGED <<tables, other_vars, outcome, db_reads, stale_reads, sleeps,
                   slept, r_result>>

\* lines 216-226 and 631-640: the read returned a PENDING_UPDATE snapshot,
\* or gave up with RetryError and the except clause takes
\* e.last_attempt.result(), or left with the predicate's AttributeError
update_read_done(p) ==
    /\ pc[p] = "up_read"
    /\ r_pc = "done"
    /\ IF r_result = AttributeError
       THEN /\ Finish(p, AttributeError)
            /\ UNCHANGED db_obj
       ELSE IF r_result = RetryError /\ last_attempt_result(outcome).failed
       THEN /\ Finish(p, DBReadError)
            /\ UNCHANGED db_obj
       ELSE /\ db_obj' = [db_obj EXCEPT ![p] =
                             [status |-> last_attempt_result(outcome).status,
                              read |-> db_reads]]
            /\ pc' = [pc EXCEPT ![p] = "up_run"]
            /\ UNCHANGED result
    /\ UNCHANGED <<op_frame, retry_vars, zone_vars, lb_vars, bag_vars, pool, exc,
                   engine_log>>

\* lines 228-248 and 642-659: build the store from the snapshot, load the
\* update flow and run it
update_run(p) ==
    /\ pc[p] = "up_run"
    /\ \/ /\ engine_log' = [engine_log EXCEPT ![p] =
                               Append(@, flow_run(1, NoPriority, "completed"))]
          /\ Finish(p, "returned")
       \/ /\ engine_log' = [engine_log EXCEPT ![p] =
                               Append(@, flow_run(1, NoPriority, "failed"))]
          /\ Finish(p, ExecutionFailure)
    /\ UNCHANGED <<op_frame, retry_vars, other_vars, exc>>

(***************************************************************************)
(* create_load_balancer under tenacity.retry, lines 323-372                *)
(***************************************************************************)
LB_CREATE_NORMAL_PRIORITY == "LB_CREATE_NORMAL_PRIORITY"
NoResultFound == "NoResultFound"     \* db_exceptions.NoResultFound

\* retry_if_exception_type(db_exceptions.NoResultFound), line 324
retry_if_no_result_found(e) == e = NoResultFound

\* the decorated method is called: tenacity starts with attempt 1
create_load_balancer_call(p) ==
    /\ pc[p] = "idle"
    /\ r_pc = "idle"
    /\ Enter(p, [op |-> "create_load_balancer", id |-> 1], "clb_get")
    /\ attempt_number' = 1
    /\ UNCHANGED <<tables, other_vars, r_pc, outcome, db_reads, stale_reads,
                   sleeps, slept, r_result>>

\* lines 337-346: one read of the load balancer; an absent row raises
\* NoResultFound, any other exception of the read is not retried
create_load_balancer_get(p) ==
    /\ pc[p] = "clb_get"
    /\ db_reads' = db_reads + 1
    /\ \/ /\ Finish(p, DBReadError)
          /\ UNCHANGED <<exc, stale_reads>>
       \/ /\ Raise(p, NoResultFound, "clb_iter")
          /\ stale_reads' = stale_reads + 1
          /\ UNCHANGED result
       \/ /\ pc' = [pc EXCEPT ![p] = "clb_run"]
          /\ UNCHANGED <<exc, result, stale_reads>>
    /\ UNCHANGED <<op_frame, other_vars, engine_log, r_pc, attempt_number,
                   outcome, sleeps, slept, r_result>>

\* lines 348-372, still inside the decorated method: build the store, load
\* the create flow and run it; the run completes or raises
create_load_balancer_run(p) ==
    /\ pc[p] = "clb_run"
    /\ \/ /\ engine_log' = [engine_log EXCEPT ![p] = Append(@,
                 flow_run(call[p].id, LB_CREATE_NORMAL_PRIORITY, "completed"))]
          /\ Finish(p, "returned")
          /\ UNCHANGED exc
       \/ \E e \in {ExecutionFailure, NoResultFound} :
             /\ engine_log' = [engine_log EXCEPT ![p] = Append(@,
                    flow_run(call[p].id, LB_CREATE_NORMAL_PRIORITY, "failed"))]
             /\ exc' = [exc EXCEPT ![p] = e]
             /\ IF retry_if_no_result_found(e)
                THEN /\ pc' = [pc EXCEPT ![p] = "clb_iter"]
                     /\ UNCHANGED result
                ELSE Finish(p, e)
    /\ UNCHANGED <<op_frame, retry_vars, other_vars>>

\* tenacity's iter() after an attempt that raised NoResultFound: give up
\* with RetryError (no reraise=True), or sleep and call the method again
create_load_balancer_iter(p) ==
    /\ pc[p] = "clb_iter"
    /\ IF stop(attempt_number)
       THEN /\ Finish(p, RetryError)
            /\ UNCHANGED <<attempt_number, sleeps, slept>>
       ELSE /\ sleeps' = Append(sleeps, wait(attempt_number))
            /\ slept' = slept + wait(attempt_number)
            /\ attempt_number' = attempt_number + 1
            /\ pc' = [pc EXCEPT ![p] = "clb_get"]
            /\ UNCHANGED result
    /\ UNCHANGED <<op_frame, other_vars, exc, engine_log, r_pc, outcome,
                   db_reads, stale_reads, r_result>>

(***************************************************************************)
(* create_listener, lines 250-281, and create_pool, lines 559-592: neither *)
(* method carries a retry decorator                                        *)
(***************************************************************************)
CreateOps == {"create_listener", "create_pool"}

create_call(p) ==
    /\ pc[p] = "idle"
    /\ \E op \in CreateOps : Enter(p, [op |-> op, id |-> 1], "cr_get")
    /\ UNCHANGED <<tables, retry_vars, other_vars>>

\* lines 256-262 and 568-573: one read of the entity; "if not db_listener"
\* logs "Retrying for up to 60 seconds" and raises NoResultFound to the caller
create_get(p) ==
    /\ pc[p] = "cr_get"
    /\ db_reads' = db_reads + 1
    /\ \/ /\ Finish(p, DBReadError)
          /\ UNCHANGED <<exc, stale_reads>>
       \/ /\ exc' = [exc EXCEPT ![p] = NoResultFound]
          /\ stale_reads' = stale_reads + 1
          /\ Finish(p, NoResultFound)
       \/ /\ pc' = [pc EXCEPT ![p] = "cr_run"]
          /\ UNCHANGED <<exc, result, stale_reads>>
    /\ UNCHANGED <<op_frame, other_vars, engine_log, r_pc, attempt_number,
                   outcome, sleeps, slept, r_result>>

\* lines 264-281 and 575-592: build the store from the row, load the create
\* flow and run it
create_run(p) ==
    /\ pc[p] = "cr_run"
    /\ \/ /\ engine_log' = [engine_log EXCEPT ![p] =
                               Append(@, flow_run(1, NoPriority, "completed"))]
          /\ Finish(p, "returned")
       \/ /\ engine_log' = [engine_log EXCEPT ![p] =
                               Append(@, flow_run(1, NoPriority, "failed"))]
          /\ Finish(p, ExecutionFailure)
    /\ UNCHANGED <<op_frame, retry_vars, other_vars, exc>>

(***************************************************************************)
(* create_amphora, lines 101-125                                           *)
(***************************************************************************)
LB_CREATE_SPARES_POOL_PRIORITY == "LB_CREATE_SPARES_POOL_PRIORITY"
AvailabilityZones == {None, 1}       \* availability_zone=None, or a zone name

NoReturnValue == "None"              \* the function falls off its end

\* the id of the amphora the create flow leaves in the engine's storage
created_amphora == MissingAmphoraId

create_amphora_call(p) ==
    /\ pc[p] = "idle"
    /\ \E az \in AvailabilityZones :
          Enter(p, [op |-> "create_amphora", id |-> None,
                    availability_zone |-> az], "ca_try")
    /\ UNCHANGED <<tables, retry_vars, other_vars>>

\* an engine failure that is raised to the caller instead of swallowed
create_amphora_try_mut(p) ==
    /\ pc[p] = "ca_try"
    /\ \/ /\ engine_log' = [engine_log EXCEPT ![p] = Append(@,
                 [flow_run(None, LB_CREATE_SPARES_POOL_PRIORITY, "completed")
                      EXCEPT !.amphora_id = created_amphora])]
          /\ Finish(p, created_amphora)
       \/ /\ engine_log' = [engine_log EXCEPT ![p] = Append(@,
                 flow_run(None, LB_CREATE_SPARES_POOL_PRIORITY, "failed"))]
          /\ Finish(p, ExecutionFailure)
    /\ UNCHANGED <<op_frame, retry_vars, other_vars, exc>>

\* lines 108-125: the try block and its `except Exception`, which logs the
\* exception and falls off the end of the function (returns None)
create_amphora_try(p) ==
    /\ pc[p] = "ca_try"
    /\ \/ /\ call[p].availability_zone # None
          /\ exc' = [exc EXCEPT ![p] = MetadataError]
          /\ Finish(p, NoReturnValue)
          /\ UNCHANGED engine_log
       \/ /\ exc' = [exc EXCEPT ![p] = FlowLoadError]
          /\ Finish(p, NoReturnValue)
          /\ UNCHANGED engine_log
       \/ /\ engine_log' = [engine_log EXCEPT ![p] = Append(@,
                 flow_run(None, LB_CREATE_SPARES_POOL_PRIORITY, "failed"))]
          /\ exc' = [exc EXCEPT ![p] = ExecutionFailure]
          /\ Finish(p, NoReturnValue)
       \/ /\ engine_log' = [engine_log EXCEPT ![p] = Append(@,
                 [flow_run(None, LB_CREATE_SPARES_POOL_PRIORITY, "completed")
                      EXCEPT !.amphora_id = created_amphora])]
          /\ \/ /\ Finish(p, created_amphora)
                /\ UNCHANGED exc
             \/ /\ exc' = [exc EXCEPT ![p] = FetchError]
                /\ Finish(p, NoReturnValue)
    /\ UNCHANGED <<op_frame, retry_vars, other_vars>>

(***************************************************************************)
(* delete_amphora, lines 127-141, and update_load_balancer, lines 403-422  *)
(***************************************************************************)
delete_amphora_call(p) ==
    /\ pc[p] = "idle"
    /\ \E id \in AmphoraIds \cup {MissingAmphoraId} :
          Enter(p, [op |-> "delete_amphora", id |-> id], "da_run")
    /\ UNCHANGED <<tables, retry_vars, other_vars>>

\* lines 133-141: read the amphora, load the delete flow on amphora.to_dict()
\* and run it
delete_amphora_run(p) ==
    /\ pc[p] = "da_run"
    /\ \/ /\ Finish(p, DBReadError)
          /\ UNCHANGED <<amp, engine_log>>
       \/ /\ amphora_repo_get(call[p].id) = None
          /\ Finish(p, AttributeError)
          /\ UNCHANGED <<amp, engine_log>>
       \/ /\ amphora_repo_get(call[p].id) # None
          /\ amp' = [amp EXCEPT ![p] = amphora_repo_get(call[p].id)]
          /\ \/ /\ engine_log' = [engine_log EXCEPT ![p] = Append(@,
                       [flow_run(None, NoPriority, "completed")
                            EXCEPT !.amphora_id = call[p].id])]
                /\ Finish(p, "returned")
             \/ /\ engine_log' = [engine_log EXCEPT ![p] = Append(@,
                       [flow_run(None, NoPriority, "failed")
                            EXCEPT !.amphora_id = call[p].id])]
                /\ Finish(p, ExecutionFailure)
    /\ UNCHANGED <<tables, call, amps, idx, ret, exc, lb_updates,
                   health_deletes, health_before, retry_vars, other_vars>>

update_load_balancer_call(p) ==
    /\ pc[p] = "idle"
    /\ \E id \in LoadBalancerIds \cup {MissingLoadBalancerId} :
          Enter(p, [op |-> "update_load_balancer", id |-> id], "ulb_run")
    /\ UNCHANGED <<tables, retry_vars, other_vars>>

\* a run whose failure is swallowed
update_load_balancer_run_mut(p) ==
    /\ pc[p] = "ulb_run"
    /\ \E s \in {"completed", "failed"} :
          engine_log' = [engine_log EXCEPT ![p] =
                            Append(@, flow_run(call[p].id, NoPriority, s))]
    /\ Finish(p, "returned")
    /\ UNCHANGED <<op_frame, retry_vars, other_vars, exc>>

\* lines 413-422: no repository read; load the update flow and run it
update_load_balancer_run(p) ==
    /\ pc[p] = "ulb_run"
    /\ \/ /\ engine_log' = [engine_log EXCEPT ![p] = Append(@,
                 flow_run(call[p].id, NoPriority, "completed"))]
          /\ Finish(p, "returned")
       \/ /\ engine_log' = [engine_log EXCEPT ![p] = Append(@,
                 flow_run(call[p].id, NoPriority, "failed"))]
          /\ Finish(p, ExecutionFailure)
    /\ UNCHANGED <<op_frame, retry_vars, other_vars, exc>>

(***************************************************************************)
(* amphora_cert_rotation, lines 975-994, and update_amphora_agent_config,  *)
(* lines 996-1023                                                          *)
(***************************************************************************)
amphora_cert_rotation_call(p) ==
    /\ pc[p] = "idle"
    /\ \E id \in AmphoraIds \cup {MissingAmphoraId} :
          Enter(p, [op |-> "amphora_cert_rotation", id |-> id], "acr_run")
    /\ UNCHANGED <<tables, retry_vars, other_vars>>

\* lines 983-994: read the amphora (amp.id fails on None), load the cert
\* rotation flow on amp.to_dict() and run it
amphora_cert_rotation_run(p) ==
    /\ pc[p] = "acr_run"
    /\ \/ /\ Finish(p, DBReadError)
          /\ UNCHANGED <<amp, engine_log>>
       \/ /\ amphora_repo_get(call[p].id) = None
          /\ Finish(p, AttributeError)
          /\ UNCHANGED <<amp, engine_log>>
       \/ /\ amphora_repo_get(call[p].id) # None
          /\ amp' = [amp EXCEPT ![p] = amphora_repo_get(call[p].id)]
          /\ \/ /\ engine_log' = [engine_log EXCEPT ![p] = Append(@,
                       [flow_run(None, NoPriority, "completed")
                            EXCEPT !.amphora_id = call[p].id])]
                /\ Finish(p, "returned")
             \/ /\ engine_log' = [engine_log EXCEPT ![p] = Append(@,
                       [flow_run(None, NoPriority, "failed")
                            EXCEPT !.amphora_id = call[p].id])]
                /\ Finish(p, ExecutionFailure)
    /\ UNCHANGED <<tables, call, amps, idx, ret, exc, lb_updates,
                   health_deletes, health_before, retry_vars, other_vars>>

update_amphora_agent_config_call(p) ==
    /\ pc[p] = "idle"
    /\ \E id \in AmphoraIds \cup {MissingAmphoraId} :
          Enter(p, [op |-> "update_amphora_agent_config", id |-> id], "uac_run")
    /\ UNCHANGED <<tables, retry_vars, other_vars>>

\* lines 1008-1023: read the amphora and its load balancer (lb.flavor_id
\* fails on None), look up the flavor if there is one, load the update
\* flow on amp.to_dict() and run it
update_amphora_agent_config_run(p) ==
    /\ pc[p] = "uac_run"
    /\ \/ /\ Finish(p, DBReadError)
          /\ UNCHANGED <<amp, engine_log>>
       \/ /\ \/ amphora_repo_get(call[p].id) = None
             \/ get_lb_for_amphora(call[p].id) = None
          /\ Finish(p, AttributeError)
          /\ UNCHANGED <<amp, engine_log>>
       \/ /\ amphora_repo_get(call[p].id) # None
          /\ get_lb_for_amphora(call[p].id) # None
          /\ amp' = [amp EXCEPT ![p] = amphora_repo_get(call[p].id)]
          /\ \/ /\ flavor_id[get_lb_for_amphora(call[p].id)] # None
                /\ Finish(p, MetadataError)
                /\ UNCHANGED engine_log
             \/ /\ engine_log' = [engine_log EXCEPT ![p] = Append(@,
                       [flow_run(None, NoPriority, "completed")
                            EXCEPT !.amphora_id = call[p].id])]
                /\ Finish(p, "returned")
             \/ /\ engine_log' = [engine_log EXCEPT ![p] = Append(@,
                       [flow_run(None, NoPriority, "failed")
                            EXCEPT !.amphora_id = call[p].id])]
                /\ Finish(p, ExecutionFailure)
    /\ UNCHANGED <<tables, call, amps, idx, ret, exc, lb_updates,
                   health_deletes, health_before, retry_vars, other_vars>>

(***************************************************************************)
(* batch_update_members, lines 485-526                                     *)
(***************************************************************************)
MaxMembers == 2

MemberIds == 1 .. MaxMembers
PoolIds == MemberIds                 \* member m was created in pool m

\* the member dict a caller passes for member m
member_dict(m) == [id |-> m, pool_id |-> m]

\* self._member_repo.get(id=m) as a provider member dict
provider_member(m) == [id |-> m, pool_id |-> m]

MemberLists ==
    UNION {[1 .. n -> {member_dict(m) : m \in MemberIds}] : n \in 0 .. MaxMembers}

\* line 487-490: the update list becomes a list of pairs (provider dict, m)
provider_updated_members(updated_members) ==
    [i \in 1 .. Len(updated_members) |->
        <<provider_member(updated_members[i].id), updated_members[i]>>]

\* a resolution that prefers the create list to the delete list
pool_id_of_mut(old_members, new_members, updated_members) ==
    IF new_members # <<>> THEN new_members[1].pool_id
    ELSE IF old_members # <<>> THEN old_members[1].pool_id
    ELSE provider_updated_members(updated_members)[1][1].pool_id

\* lines 497-506: the id passed to self._pool_repo.get
pool_id_of(old_members, new_members, updated_members) ==
    IF old_members # <<>> THEN old_members[1].pool_id
    ELSE IF new_members # <<>> THEN new_members[1].pool_id
    ELSE provider_updated_members(updated_members)[1][1].pool_id

batch_update_members_call(p) ==
    /\ pc[p] = "idle"
    /\ \E old_members \in MemberLists, new_members \in MemberLists,
          updated_members \in MemberLists :
          Enter(p, [op |-> "batch_update_members", id |-> None,
                    old_members |-> old_members,
                    new_members |-> new_members,
                    updated_members |-> updated_members], "bum_resolve")
    /\ UNCHANGED <<tables, retry_vars, other_vars>>

\* lines 487-507: read the members of the update and delete lists, then the
\* pool; with three empty lists updated_members[0] raises IndexError
batch_update_members_resolve(p) ==
    /\ pc[p] = "bum_resolve"
    /\ \/ /\ <<call[p].old_members, call[p].new_members,
               call[p].updated_members>> # <<<<>>, <<>>, <<>>>>
          /\ Finish(p, DBReadError)
          /\ UNCHANGED pool
       \/ /\ <<call[p].old_members, call[p].new_members,
               call[p].updated_members>> = <<<<>>, <<>>, <<>>>>
          /\ Finish(p, IndexError)
          /\ UNCHANGED pool
       \/ /\ <<call[p].old_members, call[p].new_members,
               call[p].updated_members>> # <<<<>>, <<>>, <<>>>>
          /\ pool' = [pool EXCEPT ![p] =
                         pool_id_of(call[p].old_members, call[p].new_members,
                                    call[p].updated_members)]
          /\ pc' = [pc EXCEPT ![p] = "bum_run"]
          /\ UNCHANGED result
    /\ UNCHANGED <<op_frame, retry_vars, zone_vars, lb_vars, bag_vars, db_obj,
                   exc, engine_log>>

\* lines 509-526: build the store for the resolved pool, load the flow, run
batch_update_members_run(p) ==
    /\ pc[p] = "bum_run"
    /\ \/ /\ engine_log' = [engine_log EXCEPT ![p] =
                               Append(@, flow_run(1, NoPriority, "completed"))]
          /\ Finish(p, "returned")
       \/ /\ engine_log' = [engine_log EXCEPT ![p] =
                               Append(@, flow_run(1, NoPriority, "failed"))]
          /\ Finish(p, ExecutionFailure)
    /\ UNCHANGED <<op_frame, retry_vars, other_vars, exc>>

(***************************************************************************)
(* octavia/common/restricted_zones.py                                      *)
(***************************************************************************)
MaxLen == 3                          \* longest compute_zones string
MaxCalls == 3                        \* get_restricted_zones calls in a behaviour

ProjectIds == {1, 2}
Comma == ","
ZoneChars == {"a", Comma}            \* a string is a sequence of characters

\* Python values: a str, a list of str, None; a project without the
\* attribute; an exception of the identity service
Str(cs) == [kind |-> "str", val |-> cs]
List(xs) == [kind |-> "list", val |-> xs]
PyNone == [kind |-> "None", val |-> <<>>]
NoAttribute == [kind |-> "no attribute", val |-> <<>>]
KeystoneError == [kind |-> "KeystoneError", val |-> <<>>]

\* line 47: ALL_ZONES = 'ALL'
ALL_ZONES == Str(<<"A", "L", "L">>)

\* what project.compute_zones can hold
ComputeZones ==
    {Str(cs) : cs \in UNION {[1 .. n -> ZoneChars] : n \in 0 .. MaxLen}}
        \cup {ALL_ZONES}

\* one key shared by every project
cache_key_mut(project_id) == <<"restricted_zones-", "any">>

\* line 49: 'restricted_zones-%s' % project_id
cache_key(project_id) == <<"restricted_zones-", project_id>>

CacheKeys == {cache_key(p) : p \in ProjectIds}

\* Python truth of a value: None and '' are false
truthy(v) == v.kind = "str" /\ v.val # <<>>

\* index of the first character of cs at or after i that is sep; 0 if none
RECURSIVE find(_, _, _)
find(cs, sep, i) ==
    IF i > Len(cs) THEN 0
    ELSE IF cs[i] = sep THEN i
    ELSE find(cs, sep, i + 1)

\* a split that drops the empty pieces
RECURSIVE split_mut(_, _)
split_mut(cs, sep) ==
    IF find(cs, sep, 1) = 0 THEN (IF cs = <<>> THEN <<>> ELSE <<cs>>)
    ELSE (IF find(cs, sep, 1) = 1 THEN <<>>
          ELSE <<SubSeq(cs, 1, find(cs, sep, 1) - 1)>>)
         \o split_mut(SubSeq(cs, find(cs, sep, 1) + 1, Len(cs)), sep)

\* line 64: str.split(sep)
RECURSIVE split(_, _)
split(cs, sep) ==
    IF find(cs, sep, 1) = 0 THEN <<cs>>
    ELSE <<SubSeq(cs, 1, find(cs, sep, 1) - 1)>>
         \o split(SubSeq(cs, find(cs, sep, 1) + 1, Len(cs)), sep)

\* a lookup that never finds anything
cache_miss_mut(zones) == TRUE

\* line 53: if not zones
cache_miss(zones) == ~truthy(zones)

\* a getattr whose default is the empty string
getattr_compute_zones_mut(project) ==
    IF project = NoAttribute THEN Str(<<>>) ELSE project

\* line 57: getattr(project, 'compute_zones', ALL_ZONES)
getattr_compute_zones(project) ==
    IF project = NoAttribute THEN ALL_ZONES ELSE project

\* lines 61-64: what the function returns for the value of `zones`
zones_result(zones) ==
    IF ~truthy(zones) \/ zones = ALL_ZONES THEN PyNone
    ELSE List(split(zones.val, Comma))

\* lines 46-64 for one answer of the identity service; `project` is
\* KeystoneError when kclient.projects.get raises
restricted_zones_call(project_id, cached, project) ==
    IF ~cache_miss(cached)
    THEN [project_id |-> project_id, cached |-> cached, queried |-> <<>>,
          project |-> PyNone, stored |-> <<>>, result |-> zones_result(cached)]
    ELSE IF project = KeystoneError
    THEN [project_id |-> project_id, cached |-> cached,
          queried |-> <<project_id>>, project |-> project, stored |-> <<>>,
          result |-> KeystoneError]
    ELSE [project_id |-> project_id, cached |-> cached,
          queried |-> <<project_id>>, project |-> project,
          stored |-> <<[key |-> cache_key(project_id),
                        value |-> getattr_compute_zones(project)]>>,
          result |-> zones_result(getattr_compute_zones(project))]

\* an accessor that builds a client on every call
get_cache_mut ==
    /\ MC' = get_client_calls + 1
    /\ get_client_calls' = get_client_calls + 1

\* lines 28-34: _get_cache() builds the client on first use
get_cache ==
    /\ MC' = IF MC = None THEN get_client_calls + 1 ELSE MC
    /\ get_client_calls' = IF MC = None THEN get_client_calls + 1
                           ELSE get_client_calls

\* lines 46-64: one call of get_restricted_zones(project_id), the identity
\* service answering with one of `answers`
get_restricted_zones_answered(answers) ==
    /\ Len(z_calls) < MaxCalls
    /\ get_cache
    /\ \E project_id \in ProjectIds, project \in answers :
          LET c == restricted_zones_call(project_id,
                                         mc_store[cache_key(project_id)], project)
          IN /\ z_calls' = Append(z_calls, c)
             /\ mc_store' = IF c.stored = <<>> THEN mc_store
                            ELSE [mc_store EXCEPT ![c.stored[1].key] =
                                                      c.stored[1].value]
    /\ UNCHANGED <<orch_vars, retry_vars, op_vars, lb_vars, bag_vars, resets>>

get_restricted_zones ==
    get_restricted_zones_answered(ComputeZones \cup {NoAttribute, KeystoneError})

\* one answer of each kind: an empty compute_zones, one zone, no
\* compute_zones attribute, a failed query
ResetAnswers == {Str(<< >>), Str(<<"a">>), NoAttribute, KeystoneError}

get_restricted_zones_between_resets == get_restricted_zones_answered(ResetAnswers)

MaxResets == 2

\* lines 37-43: reset_cache() drops the handle. What the client built
\* afterwards finds in its backend is not decided by this module: the old
\* entries (a shared backend) or none (a backend private to the client).
reset_cache ==
    /\ resets < MaxResets
    /\ resets' = resets + 1
    /\ MC' = None
    /\ mc_store' \in {mc_store, [k \in CacheKeys |-> PyNone]}
    /\ UNCHANGED <<orch_vars, retry_vars, op_vars, lb_vars, bag_vars,
                   get_client_calls, z_calls>>

(***************************************************************************)
(* Specifications                                                          *)
(***************************************************************************)
StepOrch(p) ==
    \/ failover_amphora_call(p)
    \/ failover_amphora_get(p)
    \/ failover_amphora_mark_active(p)
    \/ failover_amphora_except(p)
    \/ failover_loadbalancer_call(p)
    \/ failover_loadbalancer_get(p)
    \/ failover_loadbalancer_pass1(p)
    \/ failover_loadbalancer_pass2(p)
    \/ failover_loadbalancer_mark_active(p)
    \/ failover_loadbalancer_except(p)
    \/ perform_amphora_failover_deleted(p)
    \/ perform_amphora_failover_start(p)
    \/ perform_amphora_failover_finish(p)

InitZones ==
    /\ MC = None
    /\ mc_store = [k \in CacheKeys |-> PyNone]
    /\ get_client_calls = 0
    /\ z_calls = <<>>
    /\ resets = 0

Init == InitOrch /\ InitRetry /\ InitOps /\ InitZones /\ InitPlain

\* one worker serving a failover request
Next == \E p \in SequentialWorkers : StepOrch(p)

Spec == Init /\ [][Next]_vars

\* the convergence read on its own: no failover is in progress and the
\* amphora table holds spare amphorae only
SpareRow == [load_balancer_id |-> None, role |-> ROLE_NONE, status |-> ALLOCATED]

InitConvergence ==
    /\ InitOrch
    /\ amphora = [a \in AmphoraIds |-> SpareRow]
    /\ InitRetry
    /\ InitOps
    /\ InitZones
    /\ InitPlain

NextConvergence ==
    \/ get_db_obj_until_pending_update_call
    \/ get_db_obj_until_pending_update_attempt
    \/ get_db_obj_until_pending_update_iter
    \/ get_db_obj_until_pending_update_sleep

\* a started call keeps running: its thread is never abandoned
SpecConvergence ==
    InitConvergence /\ [][NextConvergence]_vars /\ WF_vars(NextConvergence)

\* the operations other than the failovers, one invocation at a time
StepOps(p) ==
    \/ update_call(p)
    \/ update_read_done(p)
    \/ update_run(p)
    \/ create_load_balancer_call(p)
    \/ create_load_balancer_get(p)
    \/ create_load_balancer_run(p)
    \/ create_load_balancer_iter(p)
    \/ create_call(p)
    \/ create_get(p)
    \/ create_run(p)
    \/ create_amphora_call(p)
    \/ create_amphora_try(p)
    \/ delete_amphora_call(p)
    \/ delete_amphora_run(p)
    \/ update_load_balancer_call(p)
    \/ update_load_balancer_run(p)
    \/ batch_update_members_call(p)
    \/ batch_update_members_resolve(p)
    \/ batch_update_members_run(p)

NextOperations ==
    \/ \E p \in SequentialWorkers : StepOps(p)
    \/ get_db_obj_until_pending_update_attempt
    \/ get_db_obj_until_pending_update_iter
    \/ get_db_obj_until_pending_update_sleep

SpecOperations == InitConvergence /\ [][NextOperations]_vars

\* the paths that create or rebuild an amphora, for an ACTIVE_STANDBY load
\* balancer whose amphorae are live or already deleted
BuildRows ==
    [load_balancer_id : LoadBalancerIds,
     role : {ROLE_MASTER, ROLE_BACKUP},
     status : AmphoraStatuses]

InitBuild ==
    /\ InitOrch
    /\ amphora \in [AmphoraIds -> BuildRows]
    /\ InitRetry
    /\ InitOps
    /\ InitZones
    /\ InitPlain

StepBuild(p) ==
    \/ StepOrch(p)
    \/ create_amphora_call(p)
    \/ create_amphora_try(p)
    \/ create_load_balancer_call(p)
    \/ create_load_balancer_get(p)
    \/ create_load_balancer_run(p)
    \/ create_load_balancer_iter(p)

NextBuild == \E p \in SequentialWorkers : StepBuild(p)

SpecBuild == InitBuild /\ [][NextBuild]_vars

\* the operations on one amphora, for amphorae of load balancer 1 in any
\* status
StepAmphoraOps(p) ==
    \/ delete_amphora_call(p)
    \/ delete_amphora_run(p)
    \/ amphora_cert_rotation_call(p)
    \/ amphora_cert_rotation_run(p)
    \/ update_amphora_agent_config_call(p)
    \/ update_amphora_agent_config_run(p)

NextAmphoraOps == \E p \in Workers : StepAmphoraOps(p)

SpecAmphoraOps == InitBuild /\ [][NextAmphoraOps]_vars

\* the zone restriction cache, starting with no client and nothing cached
NextZones == get_restricted_zones

SpecZones == InitConvergence /\ [][NextZones]_vars

\* the zone lookup with resets of the cache handle in between; the handle
\* does not depend on the zone strings, so one answer of each kind is drawn
NextZonesReset ==
    \/ get_restricted_zones_between_resets
    \/ reset_cache

SpecZonesReset == InitConvergence /\ [][NextZonesReset]_vars

\* failovers served by two workers at once, in a deployment with two load
\* balancers: the id that is missing elsewhere has a row here
BothLoadBalancerIds == LoadBalancerIds \cup {MissingLoadBalancerId}

ConcurrentRows ==
    {[load_balancer_id |-> 1, role |-> ROLE_BACKUP, status |-> ALLOCATED],
     [load_balancer_id |-> 1, role |-> ROLE_STANDALONE, status |-> ALLOCATED],
     [load_balancer_id |-> MissingLoadBalancerId, role |-> ROLE_STANDALONE,
      status |-> ALLOCATED],
     [load_balancer_id |-> MissingLoadBalancerId, role |-> ROLE_BACKUP,
      status |-> DELETED]}

InitConcurrent ==
    /\ amphora \in [AmphoraIds -> ConcurrentRows]
    /\ provisioning_status = [l \in BothLoadBalancerIds |-> PENDING_UPDATE]
    /\ amphora_health = AmphoraIds
    /\ InitWorkers
    /\ InitRetry
    /\ InitOps
    /\ InitZones
    /\ flavor_id = [l \in BothLoadBalancerIds |-> None]
    /\ availability_zone = [l \in BothLoadBalancerIds |-> None]
    /\ enable_anti_affinity = FALSE
    /\ InitBags

NextConcurrent == \E p \in Workers : StepOrch(p)

SpecConcurrent == InitConcurrent /\ [][NextConcurrent]_vars

\* two failovers that overlap: a request is taken only while the other
\* worker has not yet finished its own, so that two requests served in one
\* behaviour were in progress at the same time
overlaps(p) == \A q \in Workers \ {p} : pc[q] # "done"

overlapping_failover_amphora(p) == overlaps(p) /\ failover_amphora_call(p)

overlapping_failover_loadbalancer(p) ==
    overlaps(p) /\ failover_loadbalancer_call(p)

StepOverlap(p) ==
    \/ overlapping_failover_amphora(p)
    \/ failover_amphora_get(p)
    \/ failover_amphora_mark_active(p)
    \/ failover_amphora_except(p)
    \/ overlapping_failover_loadbalancer(p)
    \/ failover_loadbalancer_get(p)
    \/ failover_loadbalancer_pass1(p)
    \/ failover_loadbalancer_pass2(p)
    \/ failover_loadbalancer_mark_active(p)
    \/ failover_loadbalancer_except(p)
    \/ perform_amphora_failover_deleted(p)
    \/ perform_amphora_failover_start(p)
    \/ perform_amphora_failover_finish(p)

NextOverlap == \E p \in Workers : StepOverlap(p)

SpecOverlap == InitConcurrent /\ [][NextOverlap]_vars

\* the parameter bag of the failover flow: live and deleted amphorae of load
\* balancer 1 and spare ones, every setting of the load balancer's flavor and availability
\* zone and of the anti-affinity option
LbFlavorIds == {None, 1}
LbAvailabilityZones == {None, 1}

ParamRows ==
    {SpareRow,
     [load_balancer_id |-> 1, role |-> ROLE_STANDALONE, status |-> ALLOCATED],
     [load_balancer_id |-> 1, role |-> ROLE_BACKUP, status |-> DELETED]}

InitParams ==
    /\ InitOrch
    /\ amphora \in [AmphoraIds -> ParamRows]
    /\ InitRetry
    /\ InitOps
    /\ InitZones
    /\ flavor_id \in [LoadBalancerIds -> LbFlavorIds]
    /\ availability_zone \in [LoadBalancerIds -> LbAvailabilityZones]
    /\ enable_anti_affinity \in BOOLEAN
    /\ InitBags

SpecParams == InitParams /\ [][Next]_vars

(***************************************************************************)
(* Properties of the failover sequencer                                    *)
(***************************************************************************)
role_of(a) == amphora[a].role

\* the non-DELETED amphorae attached to a load balancer
live_amphorae(lb_id) ==
    {a \in AmphoraIds : amphora[a].load_balancer_id = lb_id
                        /\ amphora[a].status # DELETED}

\* this invocation has called _lb_repo.update with provisioning_status = st
wrote(p, st) ==
    \E i \in 1 .. Len(lb_updates[p]) : lb_updates[p][i].provisioning_status = st

\* the engine has completed the failover of amphora a in this invocation
completed(p, a) ==
    \E i \in 1 .. Len(engine_log[p]) :
        engine_log[p][i].amphora_id = a /\ engine_log[p][i].state = "completed"

serving(p, op) == call[p].op = op

\* C1: in failover_loadbalancer the engine executions run one after the
\* other, every execution for a BACKUP amphora comes before every execution
\* for an amphora of another role, and an execution for another role starts
\* only when every non-DELETED BACKUP amphora of the load balancer has been
\* failed over to completion.
C1_BackupBeforeOthers ==
    \A p \in Workers : serving(p, "failover_loadbalancer") =>
        \A j \in 1 .. Len(engine_log[p]) :
            /\ \A i \in 1 .. (j - 1) :
                  /\ engine_log[p][i].state = "completed"
                  /\ role_of(engine_log[p][j].amphora_id) = ROLE_BACKUP
                        => role_of(engine_log[p][i].amphora_id) = ROLE_BACKUP
            /\ role_of(engine_log[p][j].amphora_id) # ROLE_BACKUP =>
                  \A a \in live_amphorae(call[p].id) :
                      role_of(a) = ROLE_BACKUP =>
                          \E i \in 1 .. (j - 1) :
                              /\ engine_log[p][i].amphora_id = a
                              /\ engine_log[p][i].state = "completed"

\* C1 witness: a BACKUP amphora that comes later in lb.amphorae was failed
\* over before an amphora of another role that comes earlier.
C1_Witness ==
    \E p \in Workers :
        /\ serving(p, "failover_loadbalancer")
        /\ Len(engine_log[p]) = 2
        /\ role_of(engine_log[p][1].amphora_id) = ROLE_BACKUP
        /\ role_of(engine_log[p][2].amphora_id) # ROLE_BACKUP
        /\ engine_log[p][1].amphora_id > engine_log[p][2].amphora_id

\* C2: no engine execution of failover_amphora or failover_loadbalancer is
\* for an amphora whose status is DELETED, and the list failover_loadbalancer
\* iterates over in both passes holds no DELETED amphora.
C2_NoDeletedDispatched ==
    \A p \in Workers :
        /\ \A i \in 1 .. Len(engine_log[p]) :
              amphora[engine_log[p][i].amphora_id].status # DELETED
        /\ \A k \in 1 .. Len(amps[p]) : amphora[amps[p][k]].status # DELETED
        /\ pc[p] = "running" => amphora[amp[p]].status # DELETED

\* C2 witness: a whole-load-balancer failover returned for a load balancer
\* with a DELETED amphora next to one that was failed over.
C2_Witness ==
    \E p \in Workers :
        /\ serving(p, "failover_loadbalancer")
        /\ pc[p] = "done"
        /\ result[p] = "returned"
        /\ Len(engine_log[p]) = 1
        /\ \E a \in AmphoraIds : /\ amphora[a].load_balancer_id = call[p].id
                                 /\ amphora[a].status = DELETED

\* C3: failover_amphora on an amphora read as DELETED starts no engine
\* execution and issues exactly one amphora_health delete, keyed by that
\* amphora's id; when the repository accepts it, that row and no other is
\* gone from the table.
C3_DeletedOnlyLosesHealthRow ==
    \A p \in Workers :
        (/\ serving(p, "failover_amphora")
         /\ amp[p] # None
         /\ amphora[amp[p]].status = DELETED) =>
            /\ engine_log[p] = <<>>
            /\ Len(health_deletes[p]) <= 1
            /\ pc[p] \in {"fa_mark_active", "fa_except", "done"} =>
                  /\ Len(health_deletes[p]) = 1
                  /\ health_deletes[p][1].amphora_id = call[p].id
                  /\ health_deletes[p][1].ok =>
                        /\ amphora_health = health_before[p] \ {call[p].id}
                        /\ Cardinality(health_before[p] \ amphora_health) = 1
                  /\ ~health_deletes[p][1].ok => amphora_health = health_before[p]

\* C3 witness: the operation ended for a DELETED amphora and its health row
\* is gone.
C3_Witness ==
    \E p \in Workers :
        /\ serving(p, "failover_amphora")
        /\ pc[p] = "done"
        /\ amp[p] # None
        /\ amphora[amp[p]].status = DELETED
        /\ amp[p] \notin amphora_health
        /\ engine_log[p] = <<>>

\* C4: failover_loadbalancer calls update(ACTIVE) only when every
\* non-DELETED amphora of the load balancer has a completed engine execution
\* and none has failed or is still running; when nothing raised the
\* operation returns, and whenever it returns the status is ACTIVE.
C4_ActiveOnlyAfterAllAmphorae ==
    \A p \in Workers : serving(p, "failover_loadbalancer") =>
        /\ wrote(p, ACTIVE) =>
              /\ \A a \in live_amphorae(call[p].id) : completed(p, a)
              /\ \A i \in 1 .. Len(engine_log[p]) :
                    engine_log[p][i].state = "completed"
        /\ (pc[p] = "done" /\ exc[p] = NoException) => result[p] = "returned"
        /\ (pc[p] = "done" /\ result[p] = "returned") =>
              /\ provisioning_status[call[p].id] = ACTIVE
              /\ lb_updates[p] = <<[id |-> call[p].id,
                                    provisioning_status |-> ACTIVE, ok |-> TRUE]>>

\* C4 witness: the operation returned after failing over two amphorae.
C4_Witness ==
    \E p \in Workers :
        /\ serving(p, "failover_loadbalancer")
        /\ pc[p] = "done"
        /\ result[p] = "returned"
        /\ Len(engine_log[p]) = 2
        /\ provisioning_status[call[p].id] = ACTIVE

\* the amphora failover itself raised (lookups or engine run)
amphora_failover_raised(p) == exc[p] \in {MetadataError, ExecutionFailure}

\* C5 (as claimed): when an amphora failover inside failover_loadbalancer
\* raises, the load balancer ends in ERROR, this invocation never writes
\* ACTIVE, and the caller receives the exception the amphora failover raised.
C5_ErrorAndReraise ==
    \A p \in Workers :
        (/\ serving(p, "failover_loadbalancer")
         /\ pc[p] = "done"
         /\ amphora_failover_raised(p)) =>
            /\ provisioning_status[call[p].id] = ERROR
            /\ ~wrote(p, ACTIVE)
            /\ result[p] = exc[p]

\* C6 (as claimed): failover_amphora writes ACTIVE only after an engine
\* execution has completed, and when it returns for an amphora with an owning
\* load balancer that load balancer is ACTIVE.
C6_ActiveOnlyAfterEngine ==
    \A p \in Workers : serving(p, "failover_amphora") =>
        /\ wrote(p, ACTIVE) =>
              \E i \in 1 .. Len(engine_log[p]) :
                  engine_log[p][i].state = "completed"
        /\ (/\ pc[p] = "done"
            /\ result[p] = "returned"
            /\ amp[p] # None
            /\ amphora[amp[p]].load_balancer_id # None) =>
              provisioning_status[amphora[amp[p]].load_balancer_id] = ACTIVE

\* C6 (amended): when _perform_amphora_failover returns without raising and
\* the amphora has an owning load balancer, failover_amphora calls
\* update(ACTIVE) for that load balancer, and the load balancer is ACTIVE when
\* the operation returns.  The write is the first update of the invocation
\* and comes after _perform_amphora_failover: for a non-DELETED amphora after
\* its single engine execution has completed, for a DELETED amphora after the
\* amphora_health delete, with no engine execution at all.  A spare amphora
\* gets no ACTIVE write.
C6_ActiveAfterPerformReturns ==
    \A p \in Workers : (serving(p, "failover_amphora") /\ amp[p] # None) =>
        LET a == amp[p]
            lb_id == amphora[a].load_balancer_id
        IN  /\ wrote(p, ACTIVE) =>
                  /\ lb_id # None
                  /\ lb_updates[p][1].id = lb_id
                  /\ lb_updates[p][1].provisioning_status = ACTIVE
                  /\ IF amphora[a].status = DELETED
                     THEN /\ engine_log[p] = <<>>
                          /\ health_deletes[p] = <<[amphora_id |-> a, ok |-> TRUE]>>
                     ELSE /\ Len(engine_log[p]) = 1
                          /\ engine_log[p][1].amphora_id = a
                          /\ engine_log[p][1].state = "completed"
            /\ (/\ pc[p] = "done"
                /\ exc[p] \in {NoException, ActiveWriteError}
                /\ lb_id # None) => wrote(p, ACTIVE)
            /\ (pc[p] = "done" /\ result[p] = "returned" /\ lb_id # None) =>
                  /\ provisioning_status[lb_id] = ACTIVE
                  /\ lb_updates[p] = <<[id |-> lb_id,
                                        provisioning_status |-> ACTIVE, ok |-> TRUE]>>
            /\ lb_id = None => ~wrote(p, ACTIVE)

\* C6 witness: the operation returned for a non-DELETED amphora of a load
\* balancer after its engine execution completed, and the load balancer is
\* ACTIVE.
C6_Witness ==
    \E p \in Workers :
        /\ serving(p, "failover_amphora")
        /\ pc[p] = "done"
        /\ result[p] = "returned"
        /\ amp[p] # None
        /\ amphora[amp[p]].status # DELETED
        /\ amphora[amp[p]].load_balancer_id # None
        /\ Len(engine_log[p]) = 1
        /\ engine_log[p][1].state = "completed"
        /\ provisioning_status[amphora[amp[p]].load_balancer_id] = ACTIVE

\* C7 (as claimed): whenever failover_amphora ends with an exception, whatever
\* raised it, an update(ERROR) call was made and the caller receives the
\* exception that was caught.
C7_CompensationAttempted ==
    \A p \in Workers :
        (/\ serving(p, "failover_amphora")
         /\ pc[p] = "done"
         /\ exc[p] # NoException) =>
            /\ wrote(p, ERROR)
            /\ result[p] = exc[p]

\* C8 (as claimed): when an amphora failover inside failover_loadbalancer
\* raised and the update(ERROR) that follows fails too, the caller still
\* receives the exception the amphora failover raised.
C8_CompensationFailureSwallowed ==
    \A p \in Workers :
        (/\ serving(p, "failover_loadbalancer")
         /\ pc[p] = "done"
         /\ amphora_failover_raised(p)
         /\ \E i \in 1 .. Len(lb_updates[p]) :
               /\ lb_updates[p][i].provisioning_status = ERROR
               /\ ~lb_updates[p][i].ok) =>
            result[p] = exc[p]

(***************************************************************************)
(* Properties of the convergence read                                      *)
(***************************************************************************)
pending_read == ~outcome.failed /\ outcome.status = PENDING_UPDATE

\* the safety part of C9
C9_Bounded ==
    /\ db_reads <= 15
    /\ pending_read => r_pc \in {"iter", "done"}
    /\ r_pc \in {"attempt", "sleep"} => stale_reads = db_reads
    /\ (r_pc = "done" /\ r_result = PENDING_UPDATE) =>
          /\ pending_read
          /\ stale_reads = db_reads - 1
    /\ (r_pc = "done" /\ stale_reads = db_reads) =>
          /\ db_reads = 15
          /\ r_result = RetryError
    /\ (r_pc = "done" /\ r_result = RetryError) =>
          /\ db_reads = 15
          /\ stale_reads = 15

\* C9: the convergence read terminates; it reads the repository at most 15
\* times, reads no more once a read returned a PENDING_UPDATE entity, and
\* after a read that raised or returned another status it reads again unless
\* that was the 15th attempt.
C9_ConvergenceReadTerminates == []C9_Bounded /\ <>(r_pc = "done")

\* C9 witness: the read gave up after 15 attempts, the last of which raised.
C9_Witness ==
    /\ r_pc = "done"
    /\ r_result = RetryError
    /\ db_reads = 15
    /\ outcome.failed

\* C10: the k-th wait, between attempts k and k+1, is min(1 + 1*(k-1), 5)
\* seconds; there is one wait less than attempts, and an exhausted run of 15
\* attempts has slept 14 times, 60 seconds in all.
C10_IncrementingBackoff ==
    /\ \A k \in 1 .. Len(sleeps) : sleeps[k] = Min(1 + 1 * (k - 1), 5)
    /\ r_pc # "idle" => Len(sleeps) = attempt_number - 1
    /\ Len(sleeps) <= 14
    /\ slept <= 60
    /\ (r_pc = "done" /\ r_result = RetryError) =>
          /\ Len(sleeps) = 14
          /\ slept = 1 + 2 + 3 + 4 + 5 * 10
          /\ slept = 60

\* C10 witness: an exhausted run that has slept 60 seconds.
C10_Witness ==
    /\ r_pc = "done"
    /\ r_result = RetryError
    /\ slept = 60
    /\ sleeps[5] = 5
    /\ sleeps[14] = 5

(***************************************************************************)
(* Properties of the operations that load one flow and run it              *)
(***************************************************************************)
\* the convergence read gave up: 15 reads, none a PENDING_UPDATE snapshot
exhausted ==
    /\ r_pc = "done"
    /\ r_result = RetryError
    /\ db_reads = RETRY_ATTEMPTS
    /\ stale_reads = RETRY_ATTEMPTS

ended(p) == pc[p] = "done"

\* C11 (as claimed): in update_pool and update_health_monitor, when the
\* convergence read is exhausted (15 reads, each raising or returning a
\* status other than PENDING_UPDATE) the operation does not raise the
\* exhaustion to the caller: it runs the update flow exactly once, on the
\* snapshot of the 15th read.
C11_ExhaustionIsNotFatal ==
    \A p \in Workers :
        (call[p].op \in UpdateOps /\ exhausted /\ ended(p)) =>
            /\ Len(engine_log[p]) = 1
            /\ db_obj[p].read = RETRY_ATTEMPTS
            /\ result[p] \in {"returned", ExecutionFailure}

\* the waits slept so far follow the incrementing backoff
backoff_waits ==
    \A k \in 1 .. Len(sleeps) :
        sleeps[k] = Min(RETRY_INITIAL_DELAY + RETRY_BACKOFF * (k - 1), RETRY_MAX)

\* C12 (as claimed): create_load_balancer re-reads an absent load balancer
\* under the incrementing backoff, and when the load balancer is absent on
\* all 15 reads it has started no engine execution and the caller receives
\* the NotFound exception (NoResultFound).
C12_AbsentRaisesNotFound ==
    \A p \in Workers :
        call[p].op = "create_load_balancer" =>
            /\ backoff_waits
            /\ (ended(p) /\ stale_reads = RETRY_ATTEMPTS) =>
                   /\ engine_log[p] = <<>>
                   /\ result[p] = NoResultFound

\* the pool the claimed precedence names: delete list, create list, update list
first_member_pool(c) ==
    IF c.old_members # <<>> THEN c.old_members[1].pool_id
    ELSE IF c.new_members # <<>> THEN c.new_members[1].pool_id
    ELSE c.updated_members[1].pool_id

all_empty(c) ==
    c.old_members = <<>> /\ c.new_members = <<>> /\ c.updated_members = <<>>

\* C13: batch_update_members resolves the pool of the first member of the
\* delete list if that list is non-empty, else of the first member of the
\* create list, else of the first member of the update list; every engine
\* execution it starts is for that pool; with three empty lists it fails
\* and starts no engine execution.
C13_PoolPrecedence ==
    \A p \in Workers :
        call[p].op = "batch_update_members" =>
            /\ (pc[p] = "bum_run" \/ engine_log[p] # <<>>) =>
                   /\ ~all_empty(call[p])
                   /\ pool[p] = first_member_pool(call[p])
            /\ (ended(p) /\ all_empty(call[p])) =>
                   /\ result[p] = IndexError
                   /\ engine_log[p] = <<>>

\* C13 witness: the flow ran for the pool of the first member of the create
\* list although the update list starts with a member of another pool.
C13_Witness ==
    \E p \in Workers :
        /\ call[p].op = "batch_update_members"
        /\ ended(p)
        /\ Len(engine_log[p]) = 1
        /\ call[p].old_members = <<>>
        /\ call[p].new_members # <<>>
        /\ call[p].updated_members # <<>>
        /\ call[p].updated_members[1].pool_id # call[p].new_members[1].pool_id
        /\ pool[p] = call[p].new_members[1].pool_id

\* C14: create_amphora never raises: it starts at most one engine
\* execution; when anything in the try block raised (zone metadata lookup,
\* flow loading, engine run) it returns None; otherwise it returns the
\* amphora the completed engine execution left in its storage.
C14_CreateAmphoraSwallows ==
    \A p \in Workers :
        call[p].op = "create_amphora" =>
            /\ Len(engine_log[p]) <= 1
            /\ ended(p) =>
                   IF exc[p] # NoException
                   THEN result[p] = NoReturnValue
                   ELSE /\ Len(engine_log[p]) = 1
                        /\ engine_log[p][1].state = "completed"
                        /\ result[p] = engine_log[p][1].amphora_id
                        /\ result[p] = created_amphora

\* C14 witness: the engine run failed and the caller received None.
C14_Witness ==
    \E p \in Workers :
        /\ call[p].op = "create_amphora"
        /\ ended(p)
        /\ exc[p] = ExecutionFailure
        /\ Len(engine_log[p]) = 1
        /\ engine_log[p][1].state = "failed"
        /\ result[p] = NoReturnValue

\* the tag each path is said to attach
claimed_priority(op) ==
    CASE op = "create_amphora" -> LB_CREATE_SPARES_POOL_PRIORITY
      [] op = "create_load_balancer" -> LB_CREATE_NORMAL_PRIORITY
      [] op = "failover_amphora" -> LB_CREATE_FAILOVER_PRIORITY
      [] op = "failover_loadbalancer" -> LB_CREATE_ADMIN_FAILOVER_PRIORITY

BuildOps ==
    {"create_amphora", "create_load_balancer", "failover_amphora",
     "failover_loadbalancer"}

\* C15: every engine execution started by create_amphora carries the
\* spares-pool priority, by create_load_balancer the normal priority, by
\* failover_amphora the failover priority and by failover_loadbalancer the
\* administrator-failover priority, and no other tag.
C15_OnePriorityPerPath ==
    \A p \in Workers :
        call[p].op \in BuildOps =>
            \A i \in 1 .. Len(engine_log[p]) :
                engine_log[p][i].build_type_priority = claimed_priority(call[p].op)

\* C15 witness: a whole-load-balancer failover that ran two engine
\* executions, both tagged with the administrator-failover priority.
C15_Witness ==
    \E p \in Workers :
        /\ call[p].op = "failover_loadbalancer"
        /\ ended(p)
        /\ Len(engine_log[p]) = 2
        /\ \A i \in 1 .. 2 :
              engine_log[p][i].build_type_priority = LB_CREATE_ADMIN_FAILOVER_PRIORITY

(***************************************************************************)
(* Properties of get_restricted_zones                                      *)
(***************************************************************************)
\* the pieces put back together with the separator between them
RECURSIVE join(_, _)
join(items, sep) ==
    IF Len(items) = 1 THEN items[1]
    ELSE items[1] \o <<sep>> \o join(Tail(items), sep)

\* a compute_zones value that names zones: not empty and not the sentinel
zone_list(v) == truthy(v) /\ v # ALL_ZONES

\* C16: a call for project p that finds nothing cached for p queries the
\* identity service once, for p, stores the raw compute_zones string under
\* the cache key of p, and returns the pieces of that string between its
\* commas, in order, duplicates and empty pieces included.
C16_UncachedQueriesStoresSplits ==
    \A i \in 1 .. Len(z_calls) :
        LET c == z_calls[i] IN
        (c.cached = PyNone /\ zone_list(c.project)) =>
            /\ c.queried = <<c.project_id>>
            /\ c.stored = <<[key |-> cache_key(c.project_id), value |-> c.project]>>
            /\ mc_store[cache_key(c.project_id)].kind = "str"
            /\ c.result.kind = "list"
            /\ Len(c.result.val) >= 1
            /\ join(c.result.val, Comma) = c.project.val
            /\ \A k \in 1 .. Len(c.result.val) :
                  \A n \in 1 .. Len(c.result.val[k]) : c.result.val[k][n] # Comma

\* C16 witness: raw "a,a" was fetched for project 2 and the call returned
\* ["a", "a"].
C16_Witness ==
    \E i \in 1 .. Len(z_calls) :
        /\ z_calls[i].cached = PyNone
        /\ z_calls[i].project_id = 2
        /\ z_calls[i].project = Str(<<"a", Comma, "a">>)
        /\ z_calls[i].result.kind = "list"
        /\ z_calls[i].result.val = <<<<"a">>, <<"a">>>>

\* C17: once a call for p has stored a zone list or the sentinel "ALL" for
\* p, every later call for p returns what that call returned, queries the
\* identity service no more and writes nothing to the cache.
C17_CachedAnswerIsReused ==
    \A i \in 1 .. Len(z_calls) : \A j \in 1 .. Len(z_calls) :
        (/\ i < j
         /\ z_calls[i].project_id = z_calls[j].project_id
         /\ z_calls[i].stored # <<>>
         /\ truthy(z_calls[i].stored[1].value)) =>
            /\ z_calls[j].cached = z_calls[i].stored[1].value
            /\ z_calls[j].queried = <<>>
            /\ z_calls[j].stored = <<>>
            /\ z_calls[j].result.kind = z_calls[i].result.kind
            /\ z_calls[j].result.val = z_calls[i].result.val

\* C17 witness: a second call for project 1 answered from the cached list.
C17_Witness ==
    /\ Len(z_calls) = 2
    /\ z_calls[1].project_id = 1
    /\ z_calls[2].project_id = 1
    /\ z_calls[1].stored # <<>>
    /\ zone_list(z_calls[2].cached)
    /\ z_calls[2].result.kind = "list"
    /\ z_calls[2].queried = <<>>

\* C18: the function returns None when the cached value is the sentinel
\* "ALL", and when the project read from the identity service has no
\* compute_zones attribute; in that case "ALL" is what it writes to the cache.
C18_SentinelMeansUnrestricted ==
    \A i \in 1 .. Len(z_calls) :
        LET c == z_calls[i] IN
        /\ c.cached = ALL_ZONES => c.result = PyNone
        /\ c.project = NoAttribute =>
              /\ c.result = PyNone
              /\ c.stored = <<[key |-> cache_key(c.project_id), value |-> ALL_ZONES]>>
              /\ mc_store[cache_key(c.project_id)] = ALL_ZONES

\* C18 witness: a project without the attribute, then a call that found the
\* sentinel cached.
C18_Witness ==
    /\ Len(z_calls) = 2
    /\ z_calls[1].project = NoAttribute
    /\ z_calls[2].project_id = z_calls[1].project_id
    /\ z_calls[2].cached = ALL_ZONES
    /\ z_calls[2].result = PyNone

\* C19 (as claimed): when the value cached for the project is the empty
\* string, the call returns None whatever the identity service would report.
C19_EmptyCachedIsUnrestricted ==
    \A i \in 1 .. Len(z_calls) :
        (z_calls[i].cached = Str(<<>>) /\ z_calls[i].project # KeystoneError) =>
            z_calls[i].result = PyNone

(***************************************************************************)
(* Properties of the operations other than the failovers                   *)
(***************************************************************************)
NonFailoverOps ==
    UpdateOps \cup CreateOps \cup {"create_load_balancer", "create_amphora", "delete_amphora",
                    "update_load_balancer", "batch_update_members"}

\* the last engine execution worker p started has failed
engine_failed(p) ==
    /\ engine_log[p] # <<>>
    /\ engine_log[p][Len(engine_log[p])].state = "failed"

\* C20 (as claimed): an operation other than the two failovers issues no
\* provisioning_status write, and when its engine execution fails the
\* caller receives the exception the engine raised.
C20_EngineFailureReachesCaller ==
    \A p \in Workers :
        call[p].op \in NonFailoverOps =>
            /\ lb_updates[p] = <<>>
            /\ (ended(p) /\ engine_failed(p)) =>
                   result[p] \in {ExecutionFailure, NoResultFound}

\* C20 (amended): an operation other than the two failovers issues no
\* provisioning_status write; when its engine execution fails the caller
\* receives the engine's exception, except in create_amphora, which
\* swallows it and returns None, and except a NoResultFound raised inside
\* create_load_balancer, which the retry decorator takes for an absent row.
C20_EngineFailureReachesCallerUnlessSwallowed ==
    \A p \in Workers :
        call[p].op \in NonFailoverOps =>
            /\ lb_updates[p] = <<>>
            /\ provisioning_status = [l \in LoadBalancerIds |-> PENDING_UPDATE]
            /\ (/\ ended(p)
                /\ engine_failed(p)
                /\ call[p].op # "create_amphora"
                /\ ~(call[p].op = "create_load_balancer" /\ exc[p] = NoResultFound)) =>
                   result[p] = ExecutionFailure
            /\ (ended(p) /\ engine_failed(p) /\ call[p].op = "create_amphora") =>
                   result[p] = NoReturnValue

\* C20 witness: delete_amphora ended with the engine's exception and no
\* provisioning_status write.
C20_Witness ==
    \E p \in Workers :
        /\ call[p].op = "delete_amphora"
        /\ ended(p)
        /\ engine_failed(p)
        /\ result[p] = ExecutionFailure
        /\ lb_updates[p] = <<>>

(***************************************************************************)
(* Further properties of the failover sequencer                            *)
(***************************************************************************)
\* C21 (as claimed): failover_amphora called with an id that has no row in
\* the amphora table ends with an error for the caller.
C21_AbsentAmphoraRaises ==
    \A p \in Workers :
        (/\ serving(p, "failover_amphora")
         /\ amphora_repo_get(call[p].id) = None
         /\ ended(p)) =>
            result[p] # "returned"

\* failover_amphora was called for an amphora whose status is DELETED
deleted_failover(p) ==
    /\ serving(p, "failover_amphora")
    /\ amphora_repo_get(call[p].id) # None
    /\ amphora[call[p].id].status = DELETED

\* C24 (as claimed): when failover_amphora is invoked for a DELETED amphora
\* the orchestrator issues no provisioning_status write.
C24_DeletedLeavesStatusAlone ==
    \A p \in Workers :
        deleted_failover(p) => lb_updates[p] = <<>>

\* C24 (amended): when failover_amphora is invoked for a DELETED amphora it
\* starts no engine execution and changes no amphora row; besides the
\* amphora_health delete it writes the provisioning_status of the owning
\* load balancer: ACTIVE after the delete succeeded (nothing for a spare
\* amphora), ERROR after the delete or the ACTIVE write raised.
C24_DeletedWritesOwnerStatus ==
    \A p \in Workers :
        (deleted_failover(p) /\ ended(p)) =>
            LET lb_id == amphora[call[p].id].load_balancer_id IN
            /\ engine_log[p] = <<>>
            /\ \A i \in 1 .. Len(lb_updates[p]) : lb_updates[p][i].id = lb_id
            /\ (result[p] = "returned" /\ lb_id # None) =>
                   /\ health_deletes[p] = <<[amphora_id |-> call[p].id, ok |-> TRUE]>>
                   /\ lb_updates[p] =
                          <<[id |-> lb_id, provisioning_status |-> ACTIVE, ok |-> TRUE]>>
            /\ (result[p] = "returned" /\ lb_id = None) => lb_updates[p] = <<>>
            /\ result[p] = HealthDeleteError =>
                   /\ Len(lb_updates[p]) = 1
                   /\ lb_updates[p][1].provisioning_status = ERROR

\* C24 witness: the operation returned for a DELETED amphora of load
\* balancer 1, which is now ACTIVE.
C24_Witness ==
    \E p \in Workers :
        /\ deleted_failover(p)
        /\ ended(p)
        /\ result[p] = "returned"
        /\ amphora[call[p].id].load_balancer_id = 1
        /\ provisioning_status[1] = ACTIVE
        /\ call[p].id \notin amphora_health

\* after an amphora failover raised, worker p only writes ERROR and ends
only_error_write(p) ==
    /\ engine_log'[p] = engine_log[p]
    /\ health_deletes'[p] = health_deletes[p]
    /\ amphora' = amphora
    /\ amphora_health' = amphora_health
    /\ pc'[p] # pc[p] =>
          /\ pc[p] = "fl_except"
          /\ pc'[p] = "done"
          /\ Len(lb_updates'[p]) = Len(lb_updates[p]) + 1
          /\ lb_updates'[p][Len(lb_updates'[p])].provisioning_status = ERROR

\* C26: in failover_loadbalancer, once the failover of one amphora has
\* raised, no engine execution is started or changed any more in that
\* invocation: the completed ones stay completed, the amphorae not yet
\* reached are not dispatched, and the only step left is the ERROR write.
C26_NoDispatchAfterFailure ==
    [][\A p \in Workers :
          (serving(p, "failover_loadbalancer") /\ amphora_failover_raised(p)) =>
              only_error_write(p)]_vars

\* C26 witness: the first of two live amphorae failed in the engine, the
\* second was never dispatched, and the operation ended after the ERROR write.
C26_Witness ==
    \E p \in Workers :
        /\ serving(p, "failover_loadbalancer")
        /\ ended(p)
        /\ Len(amps[p]) = 2
        /\ Len(engine_log[p]) = 1
        /\ engine_log[p][1].state = "failed"
        /\ wrote(p, ERROR)

(***************************************************************************)
(* Further properties of the dispatch operations                           *)
(***************************************************************************)
\* the entity the operation of worker p names has no row in the repository
absent_target(p) ==
    \/ /\ call[p].op = "delete_amphora"
       /\ amphora_repo_get(call[p].id) = None
    \/ /\ call[p].op = "update_load_balancer"
       /\ call[p].id \notin DOMAIN provisioning_status

\* C22 (as claimed): an operation whose target entity is absent from the
\* repository starts no engine execution and ends with an error for the
\* caller.
C22_AbsentStartsNoEngine ==
    \A p \in Workers :
        absent_target(p) =>
            /\ engine_log[p] = <<>>
            /\ ended(p) => result[p] # "returned"

\* C28 (as claimed): an invocation of an operation other than the two
\* failovers starts at most one engine execution.
C28_AtMostOneEngineRun ==
    \A p \in Workers :
        call[p].op \in NonFailoverOps => Len(engine_log[p]) <= 1

\* C29 (as claimed): in update_pool and update_health_monitor the retry
\* loop is left after a read that found no row only when the attempt bound
\* is reached; before that, such a read is followed by another read.
C29_AbsentReadIsRetried ==
    \A p \in Workers :
        (/\ call[p].op \in UpdateOps
         /\ r_pc = "done"
         /\ ~outcome.failed
         /\ outcome.status = NoEntity) =>
            db_reads = RETRY_ATTEMPTS

\* C27 (as claimed): create_listener and create_pool fail with NotFound
\* only after the entity was absent on all 15 reads, the reads being
\* separated by the incrementing backoff.
C27_CreateRereadsAbsentEntity ==
    \A p \in Workers :
        (/\ call[p].op \in CreateOps
         /\ ended(p)
         /\ result[p] = NoResultFound) =>
            /\ db_reads = RETRY_ATTEMPTS
            /\ Len(sleeps) = RETRY_ATTEMPTS - 1
            /\ backoff_waits

(***************************************************************************)
(* The parameter bag of the failover flow                                  *)
(***************************************************************************)
\* the metadata lookups made for the k-th bag of worker p name resolver r
resolver_called(p, k, r) ==
    \E i \in 1 .. Len(resolver_calls[p][k]) : resolver_calls[p][k][i].resolver = r

\* C30: for every parameter bag built for a failover flow, the flavor
\* resolver was called exactly when the amphora has an owning load balancer
\* with a flavor_id, the availability-zone resolver exactly when it has an
\* owning load balancer with an availability_zone, an entry whose resolver
\* was not called is the empty map, the server-group id is in the bag only
\* when anti-affinity is enabled and an owning load balancer exists, and the
\* flavor and availability-zone entries are always in the bag.
C30_MetadataOnlyWhenSet ==
    \A p \in Workers :
        /\ Len(resolver_calls[p]) = Len(stored_params[p])
        /\ \A k \in 1 .. Len(stored_params[p]) :
              LET bag == stored_params[p][k]
                  lb == bag.loadbalancer_id
                  has_flavor == lb # None /\ flavor_id[lb] # None
                  has_az == lb # None /\ availability_zone[lb] # None
              IN /\ {"flavor", "availability_zone"} \subseteq DOMAIN bag
                 /\ resolver_called(p, k, "flavor") <=> has_flavor
                 /\ resolver_called(p, k, "availability_zone") <=> has_az
                 /\ bag.flavor = IF has_flavor
                                 THEN get_flavor_metadata_dict(flavor_id[lb])
                                 ELSE EmptyDict
                 /\ bag.availability_zone =
                        IF has_az
                        THEN get_availability_zone_metadata_dict(availability_zone[lb])
                        ELSE EmptyDict
                 /\ "server_group_id" \in DOMAIN bag =>
                        enable_anti_affinity /\ lb # None

\* C30 witness: a bag was built for an amphora of a load balancer that has
\* an availability zone and no flavor, with anti-affinity enabled: only the
\* availability-zone resolver was called and the server-group id is there.
C30_Witness ==
    \E p \in Workers :
        \E k \in 1 .. Len(stored_params[p]) :
            /\ stored_params[p][k].loadbalancer_id = 1
            /\ flavor_id[1] = None
            /\ availability_zone[1] # None
            /\ stored_params[p][k].flavor = EmptyDict
            /\ stored_params[p][k].availability_zone # EmptyDict
            /\ resolver_called(p, k, "availability_zone")
            /\ ~resolver_called(p, k, "flavor")
            /\ "server_group_id" \in DOMAIN stored_params[p][k]

\* C23 (as claimed): no engine execution is started with an amphora whose
\* status is DELETED in its parameter bag.
C23_NoDeletedAmphoraInEngine ==
    \A p \in Workers :
        \A k \in 1 .. Len(engine_log[p]) :
            engine_log[p][k].amphora_id \in DOMAIN amphora =>
                amphora[engine_log[p][k].amphora_id].status # DELETED

(***************************************************************************)
(* The cache handle of the zone lookup                                     *)
(***************************************************************************)
\* C25: reset_cache clears the handle and constructs nothing; a
\* get_restricted_zones call that finds the handle cleared (the first call
\* of the process and the first call after a reset) constructs one new
\* cache instance and leaves it in the handle; every other call uses the
\* instance already in the handle and constructs nothing.
C25_LazySingleInstance ==
    [][/\ MC # None => MC = get_client_calls
       /\ resets' # resets =>
             /\ MC' = None
             /\ get_client_calls' = get_client_calls
       /\ z_calls' # z_calls =>
             /\ MC' # None
             /\ MC # None =>
                   /\ MC' = MC
                   /\ get_client_calls' = get_client_calls
             /\ MC = None =>
                   /\ get_client_calls' = get_client_calls + 1
                   /\ MC' = get_client_calls']_vars

\* C25 witness: a call, a reset and a second call have happened, and the
\* handle holds the second instance constructed.
C25_Witness ==
    /\ resets = 1
    /\ Len(z_calls) = 2
    /\ get_client_calls = 2
    /\ MC = 2

(***************************************************************************)
(* The two passes of failover_loadbalancer; concurrent failovers           *)
(***************************************************************************)
\* the engine executions worker p started for amphora a
dispatches(p, a) ==
    {i \in 1 .. Len(engine_log[p]) : engine_log[p][i].amphora_id = a}

\* C31: when failover_loadbalancer returns normally, every non-DELETED
\* amphora of the load balancer was dispatched to the engine exactly once,
\* nothing else was dispatched, and ACTIVE was written; with no non-DELETED
\* amphora there was no engine execution at all.
C31_EachLiveAmphoraOnce ==
    \A p \in Workers :
        (/\ serving(p, "failover_loadbalancer")
         /\ ended(p)
         /\ result[p] = "returned") =>
            /\ \A a \in live_amphorae(call[p].id) :
                  Cardinality(dispatches(p, a)) = 1
            /\ \A i \in 1 .. Len(engine_log[p]) :
                  engine_log[p][i].amphora_id \in live_amphorae(call[p].id)
            /\ Len(engine_log[p]) = Cardinality(live_amphorae(call[p].id))
            /\ wrote(p, ACTIVE)
            /\ provisioning_status[call[p].id] = ACTIVE

\* C31 witness: a load balancer with a BACKUP and a non-BACKUP amphora was
\* failed over, one engine execution each.
C31_Witness ==
    \E p \in Workers :
        /\ serving(p, "failover_loadbalancer")
        /\ ended(p)
        /\ result[p] = "returned"
        /\ Len(engine_log[p]) = 2
        /\ \E a, b \in live_amphorae(call[p].id) :
              /\ role_of(a) = ROLE_BACKUP
              /\ role_of(b) # ROLE_BACKUP
              /\ Cardinality(dispatches(p, a)) = 1
              /\ Cardinality(dispatches(p, b)) = 1

\* C31 witness of the empty case: every amphora of the load balancer is
\* DELETED (or it has none) and the operation returned after the ACTIVE write.
C31_WitnessNoAmphora ==
    \E p \in Workers :
        /\ serving(p, "failover_loadbalancer")
        /\ ended(p)
        /\ result[p] = "returned"
        /\ live_amphorae(call[p].id) = {}
        /\ engine_log[p] = << >>
        /\ wrote(p, ACTIVE)

\* C32 (as claimed): failover_amphora for an amphora without an owning load
\* balancer issues no provisioning_status write, neither ACTIVE nor ERROR.
C32_SpareNeverWritesStatus ==
    \A p \in Workers :
        (/\ serving(p, "failover_amphora")
         /\ amphora_repo_get(call[p].id) # None
         /\ get_lb_for_amphora(call[p].id) = None) =>
            lb_updates[p] = << >>

\* the load balancer the failover served by worker p is about
target(p) ==
    IF serving(p, "failover_loadbalancer") THEN call[p].id
    ELSE get_lb_for_amphora(call[p].id)

\* C33: every provisioning_status write of a failover is addressed to the
\* load balancer the operation is about (the id passed to
\* failover_loadbalancer, the owner of the amphora passed to
\* failover_amphora), and a step changes the provisioning_status of no
\* other load balancer, however the two workers' steps interleave.
C33_WritesOnlyOwnLoadBalancer ==
    [][/\ \A p \in Workers :
             lb_updates'[p] # lb_updates[p] =>
                 /\ lb_updates'[p][Len(lb_updates'[p])].id = target(p)
                 /\ \A l \in DOMAIN provisioning_status :
                       l # target(p) =>
                           provisioning_status'[l] = provisioning_status[l]
       /\ (\A p \in Workers : lb_updates'[p] = lb_updates[p]) =>
              provisioning_status' = provisioning_status]_vars

\* C33 witness: while worker 1 is in the middle of failover_loadbalancer(1),
\* worker 2 has finished a failover on the other load balancer and written
\* its status; load balancer 1 still has the status it started with.
C33_Witness ==
    /\ serving(1, "failover_loadbalancer")
    /\ call[1].id = 1
    /\ pc[1] = "running"
    /\ ended(2)
    /\ target(2) = MissingLoadBalancerId
    /\ wrote(2, ACTIVE)
    /\ provisioning_status[MissingLoadBalancerId] = ACTIVE
    /\ provisioning_status[1] = PENDING_UPDATE

\* both failovers have ended, one of them with an exception after which it
\* wrote ERROR, and every provisioning_status write they issued went through
ended_with_failure ==
    /\ \A p \in Workers : ended(p)
    /\ \E p \in Workers : result[p] # "returned" /\ wrote(p, ERROR)
    /\ \A p \in Workers :
          \A i \in 1 .. Len(lb_updates[p]) : lb_updates[p][i].ok

\* C34 (as claimed): when two overlapping failovers of the same load
\* balancer have both ended and at least one of them failed, the load
\* balancer's provisioning_status is ERROR.
C34_FailureIsNotOverwritten ==
    \A l \in BothLoadBalancerIds :
        (ended_with_failure /\ \A p \in Workers : target(p) = l) =>
            provisioning_status[l] = ERROR

(***************************************************************************)
(* The zone cache is keyed per project                                     *)
(***************************************************************************)
\* the calls made for project b, in order
calls_for(b) == SelectSeq(z_calls, LAMBDA c : c.project_id = b)

\* what the entry of the call's project holds when call c has ended
entry_after(c) == IF c.stored # << >> THEN c.stored[1].value ELSE c.cached

\* C35: a call for a project writes only that project's cache entry, and
\* what a call for project b finds cached and returns is determined by the
\* earlier calls for b alone: it is what the same calls for b give when no
\* call for another project is made in between.
C35_ProjectsDoNotInterfere ==
    \A b \in ProjectIds :
        LET own == calls_for(b) IN
        /\ mc_store[cache_key(b)] =
               IF own = << >> THEN PyNone ELSE entry_after(own[Len(own)])
        /\ \A i \in 1 .. Len(own) :
              /\ own[i].cached = IF i = 1 THEN PyNone ELSE entry_after(own[i - 1])
              /\ own[i] = restricted_zones_call(b, own[i].cached, own[i].project)
              /\ own[i].stored # << >> => own[i].stored[1].key = cache_key(b)

\* C35 witness: a call for project 1 stored a zone list, then a call for
\* project 2 found nothing cached and stored its own, then a second call for
\* project 1 was answered from project 1's entry.
C35_Witness ==
    /\ Len(z_calls) = 3
    /\ z_calls[1].project_id = 1
    /\ z_calls[1].stored # << >>
    /\ z_calls[2].project_id = 2
    /\ z_calls[2].cached = PyNone
    /\ z_calls[2].stored # << >>
    /\ z_calls[2].stored[1].value # z_calls[1].stored[1].value
    /\ z_calls[3].project_id = 1
    /\ z_calls[3].queried = << >>
    /\ z_calls[3].result = z_calls[1].result
    /\ z_calls[3].result # z_calls[2].result

====
